---- MODULE Spec2Model ----
(***************************************************************************)
(* Model of the fantasy-soccer server (src/server.js): the throttled       *)
(* API-Football gateway (scheduleApiFootballRequest / apiFootball), the    *)
(* squads response cache, and the live-fixture poller described in         *)
(* LIVE_SCORING_PROMPT_EVALUATION.md.                                      *)
(*                                                                         *)
(* Time is counted in abstract clock units; the two durations of the       *)
(* source keep their order (minimum interval < squads TTL).                *)
(***************************************************************************)
EXTENDS Integers, Sequences, FiniteSets, TLC

\* ------------------------------------------------------------------ bounds
MaxCalls == 3          \* apiFootball invocations per behaviour
MaxTime  == 3          \* last value of the clock

\* ------------------------------------------------------- program constants
API_FOOTBALL_MIN_INTERVAL_MS == 2     \* 6500 ms, scaled
API_FOOTBALL_SQUADS_TTL_MS   == 3     \* 12 h, scaled

SQUADS == "/players/squads"
EVENTS == "/fixtures/events"
STATISTICS == "/fixtures/statistics"
LIVE == "/fixtures"

VARIABLES
  now,                        \* Date.now()
  apiFootballNextAllowedAt,   \* server.js:84
  calls,                      \* every apiFootball invocation, in call order
  apiFootballCache,           \* server.js:110, key -> [expiresAt, data]
  fixtures,                   \* fixtures table: id -> row
  matchStats,                 \* match_stats: <<fixture, player>> -> row
  teamMatchStats,             \* team_match_stats: <<fixture, team>> -> row
  poolScores,                 \* player_pools: entry id -> stage -> total
  pollPc,                     \* position of pollLiveFixtures
  pollTick,                   \* ticks completed
  pollAwait,                  \* the invocation the tick is awaiting
  pollTodo,                   \* live fixtures still to evaluate
  pollCur,                    \* the live fixture being processed
  pollUpdated,                \* (competition, season) pairs updated this tick
  lastEval,                   \* history: the latest evaluation of a fixture
  lastPull,                   \* history: fixture -> latest full pull
  tickLog,                    \* history: fixtures whose own fetch failed this tick
  pollSkipped,                \* history: the timer fired during the current await
  poolRuns,                   \* history: the pool updates the last finished tick ran
  league,                     \* the row of the league in table leagues
  requests,                   \* the open requests of the draft routes, in arrival order
  sent,                       \* the HTTP responses of the football routes: call -> response
  refresh,                    \* position and locals of refreshPlayerPool
  draftQueues                 \* table draft_queues: manager id -> queue

gatewayVars == <<now, apiFootballNextAllowedAt, calls, apiFootballCache>>

pollerVars == <<fixtures, matchStats, teamMatchStats, poolScores, pollPc, pollTick,
                pollAwait, pollTodo, pollCur, pollUpdated, lastEval, lastPull, tickLog,
                pollSkipped, poolRuns>>

appVars == <<league, requests, sent, refresh, draftQueues>>

vars == <<gatewayVars, pollerVars, appVars>>

\* ------------------------------------------------------------ pure helpers
Max(a, b) == IF a >= b THEN a ELSE b

\* JS values that occur as parameter values: a number (given by its decimal
\* digits) or a string.
Num(d) == [type |-> "number", text |-> d]
Str(d) == [type |-> "string", text |-> d]

\* String(v): a number becomes its decimal string, a string stays.
String(v) == [type |-> "string", text |-> v.text]

\* encodeURIComponent leaves letters and digits untouched.
encodeURIComponent(s) == s

\* Array.prototype.sort() on the parameter names used by the callers.
KeyRank(k) == CASE k = "fixture" -> 1
                [] k = "league"  -> 2
                [] k = "live"    -> 3
                [] k = "season"  -> 4
                [] k = "team"    -> 5

RemoveAt(s, i) == [j \in 1..(Len(s) - 1) |-> IF j < i THEN s[j] ELSE s[j + 1]]

RECURSIVE SortKeys(_)
SortKeys(ks) ==
  IF ks = <<>> THEN <<>>
  ELSE LET m == CHOOSE i \in 1..Len(ks) :
                  \A j \in 1..Len(ks) : KeyRank(ks[i]) <= KeyRank(ks[j])
       IN <<ks[m]>> \o SortKeys(RemoveAt(ks, m))

\* An object is the sequence of its <<name, value>> pairs in insertion order.
ObjectKeys(obj) == [i \in 1..Len(obj) |-> obj[i][1]]
Lookup(obj, k) == obj[CHOOSE i \in 1..Len(obj) : obj[i][1] = k][2]

\* server.js:104-108; the result stands for "k1=v1&k2=v2".
stableStringifyUnsorted(obj) ==
  LET keys == ObjectKeys(obj)
  IN [i \in 1..Len(keys) |-> <<keys[i], encodeURIComponent(String(Lookup(obj, keys[i])))>>]
stableStringify(obj) ==
  LET keys == SortKeys(ObjectKeys(obj))
  IN [i \in 1..Len(keys) |-> <<keys[i], encodeURIComponent(String(Lookup(obj, keys[i])))>>]

\* server.js:165
CacheKey(endpoint, params) == <<endpoint, stableStringify(params)>>

\* -------------------------------------------------------- response bodies
\* JS values that occur as the "errors" member of a response body; n is the
\* length of an array or a string, the number of keys of an object, the
\* number itself, or 1/0 for true/false.
JsUndefined == [kind |-> "undefined", n |-> 0]
JsNull == [kind |-> "null", n |-> 0]
JsArray(n) == [kind |-> "array", n |-> n]
JsObject(n) == [kind |-> "object", n |-> n]
JsString(n) == [kind |-> "string", n |-> n]
JsNumber(n) == [kind |-> "number", n |-> n]
JsBoolean(n) == [kind |-> "boolean", n |-> n]

\* ToBoolean
Truthy(v) ==
  CASE v.kind \in {"undefined", "null"} -> FALSE
    [] v.kind \in {"array", "object"} -> TRUE
    [] v.kind = "string" -> v.n > 0
    [] v.kind = "number" -> v.n # 0
    [] v.kind = "boolean" -> v.n = 1

\* response.data: an empty body is a falsy value, any other body is an
\* object that may have an "errors" member.
EmptyBody == [truthy |-> FALSE, errors |-> JsUndefined]
Body(errors) == [truthy |-> TRUE, errors |-> errors]

\* server.js:141-147
hasUpstreamErrorsNever(data) == FALSE
hasUpstreamErrorsArraysOnly(data) ==
  IF ~data.truthy THEN FALSE
  ELSE data.errors.kind = "array" /\ data.errors.n > 0
hasUpstreamErrors(data) ==
  IF ~data.truthy THEN FALSE
  ELSE LET errs == data.errors
       IN IF ~Truthy(errs) THEN FALSE
          ELSE IF errs.kind = "array" THEN errs.n > 0
          ELSE IF errs.kind = "object" THEN errs.n > 0
          ELSE Truthy(errs)

\* A provider response as axios sees it; status 0 stands for a request that
\* got no HTTP response (connection error).
Response(status, data) == [status |-> status, data |-> data]
NetworkError == Response(0, EmptyBody)

\* axios resolves the promise for a 2xx status and rejects it otherwise.
Resolves(resp) == resp.status >= 200 /\ resp.status < 300

\* ------------------------------------------------------------------ cache
\* A payload is a response body together with the invocation whose fetch
\* produced it; an empty response body is a falsy payload.
NoData == [fetch |-> 0, truthy |-> FALSE, errors |-> JsUndefined]     \* null
Payload(i, data) == [fetch |-> i, truthy |-> data.truthy, errors |-> data.errors]

\* server.js:112-120, the value returned
getApiFootballCachedLate(cache, key, t) ==
  IF key \notin DOMAIN cache THEN NoData
  ELSE IF t > cache[key].expiresAt THEN NoData
  ELSE cache[key].data
getApiFootballCached(cache, key, t) ==
  IF key \notin DOMAIN cache THEN NoData
  ELSE IF t >= cache[key].expiresAt THEN NoData
  ELSE cache[key].data

\* server.js:115-117, the map after the read
CacheAfterGet(cache, key, t) ==
  IF key \in DOMAIN cache /\ t >= cache[key].expiresAt
    THEN [k \in (DOMAIN cache) \ {key} |-> cache[k]]
    ELSE cache

\* server.js:122-124
setApiFootballCached(cache, key, data, ttlMs, t) ==
  [k \in (DOMAIN cache) \cup {key} |->
     IF k = key THEN [expiresAt |-> t + ttlMs, data |-> data] ELSE cache[k]]

\* ----------------------------------------------------------------- errors
Undefined == 0
NoError == [isApiFootballError |-> FALSE, status |-> Undefined,
            upstreamStatus |-> Undefined, retryAfterSeconds |-> Undefined,
            upstreamErrors |-> JsUndefined,
            endpoint |-> "", params |-> <<>>, raw |-> "none"]

\* server.js:182-190 and 219-227
EmbeddedError(endpoint, params, errors) ==
  [isApiFootballError |-> TRUE, status |-> 429, upstreamStatus |-> 200,
   retryAfterSeconds |-> 60, upstreamErrors |-> errors,
   endpoint |-> endpoint, params |-> params, raw |-> "none"]

\* The rejection reason of axios: the error of a non-2xx response carries
\* the response (e.response.status), a connection error carries none.
HttpReasons == {"http404", "http429", "http5xx", "http503"}

ReasonOf(resp) ==
  CASE resp.status = 0 -> "neterr"
    [] resp.status = 404 -> "http404"
    [] resp.status = 429 -> "http429"
    [] resp.status = 500 -> "http5xx"
    [] resp.status = 503 -> "http503"

HttpStatusOf(reason) ==
  CASE reason = "http404" -> 404
    [] reason = "http429" -> 429
    [] reason = "http5xx" -> 500
    [] reason = "http503" -> 503

\* server.js:194-208 and 230-244: the catch block applied to the rejection
\* reason of the awaited queue promise.
CaughtErrorAlwaysRetry(reason, endpoint, params) ==
  IF reason \in HttpReasons
    THEN [isApiFootballError |-> TRUE,
          status |-> 429,
          upstreamStatus |-> HttpStatusOf(reason),
          retryAfterSeconds |-> 60,
          upstreamErrors |-> JsUndefined,
          endpoint |-> endpoint, params |-> params, raw |-> "none"]
    ELSE [NoError EXCEPT !.raw = reason]
CaughtError(reason, endpoint, params) ==
  IF reason \in HttpReasons
    THEN [isApiFootballError |-> TRUE,
          status |-> IF HttpStatusOf(reason) = 429 THEN 429 ELSE 502,
          upstreamStatus |-> HttpStatusOf(reason),
          retryAfterSeconds |-> IF HttpStatusOf(reason) = 429 THEN 60 ELSE Undefined,
          upstreamErrors |-> JsUndefined,     \* error bodies carry no "errors"
          endpoint |-> endpoint, params |-> params, raw |-> "none"]
    ELSE [NoError EXCEPT !.raw = reason]        \* "throw e": the axios error

\* ---------------------------------------------------------------- gateway
Outcomes == {"ok", "okEmptyBody", "okErrors", "http429", "http5xx", "neterr"}

\* The request scheduled before invocation i on the promise chain
\* (apiFootballQueue at the moment i was scheduled); 0 for Promise.resolve().
ChainPrevNone(i) == 0
ChainPrev(i) ==
  LET before == {j \in 1..(i - 1) : calls[j].st # "hit"}
  IN IF before = {} THEN 0 ELSE CHOOSE j \in before : \A k \in before : k <= j

\* server.js:92: the callback given to .then runs once the previous promise
\* of the chain is fulfilled.
ChainReadyNoWait(i) == TRUE
ChainReady(i) ==
  IF ChainPrev(i) = 0 THEN TRUE ELSE calls[ChainPrev(i)].st = "fulfilled"

\* .then with no rejection handler: a rejected predecessor rejects the
\* derived promise with the same reason and the callback never runs.
ChainRejected(i) ==
  IF ChainPrev(i) = 0 THEN FALSE ELSE calls[ChainPrev(i)].st = "rejected"

\* server.js:98
NextAllowedNoInterval(start) == start
NextAllowedAfter(start) == start + API_FOOTBALL_MIN_INTERVAL_MS

\* server.js:97-99: reserve the slot, then issue the request.
DispatchNoReserve(i) ==
  /\ UNCHANGED apiFootballNextAllowedAt
  /\ calls' = [calls EXCEPT ![i].st = "inflight", ![i].wakeAt = 0,
                             ![i].dispatchedAt = now]
Dispatch(i) ==
  /\ apiFootballNextAllowedAt' = NextAllowedAfter(now)
  /\ calls' = [calls EXCEPT ![i].st = "inflight", ![i].wakeAt = 0,
                             ![i].dispatchedAt = now]

\* The record of an invocation.  st is the state of the promise that
\* scheduleApiFootballRequest returned ("hit": none was scheduled); result is
\* what apiFootball gave its caller.  failedBefore and entryExpiresAt are
\* history: whether an earlier invocation had already failed when this one
\* was made, and the expiry of the cache entry a hit was answered from.
NewCall(endpoint, params, st, payload, expiresAt) ==
  [endpoint |-> endpoint, params |-> params, issuedAt |-> now, st |-> st,
   wakeAt |-> 0, dispatchedAt |-> -1,
   reason |-> "none",
   result |-> IF st = "hit" THEN "data" ELSE "pending",
   payload |-> payload, err |-> NoError,
   failedBefore |-> \E k \in 1..Len(calls) : calls[k].result = "error",
   entryExpiresAt |-> expiresAt]

\* apiFootball(endpoint, params) up to its first await: server.js:163-178
\* for squads, 210-216 otherwise, with scheduleApiFootballRequest 91-102
\* appending to the chain: the record of the new invocation.
apiFootballCall(endpoint, params) ==
  IF endpoint = SQUADS
    THEN LET key == CacheKey(endpoint, params)
             cached == getApiFootballCached(apiFootballCache, key, now)
         IN IF cached.truthy
              THEN NewCall(endpoint, params, "hit", cached,
                           apiFootballCache[key].expiresAt)
              ELSE NewCall(endpoint, params, "queued", NoData, 0)
    ELSE NewCall(endpoint, params, "queued", NoData, 0)

\* The cache after the lookup of server.js:166.
apiFootballCacheReadTouch(endpoint, params) ==
  IF endpoint = SQUADS
    THEN LET key == CacheKey(endpoint, params)
             cached == getApiFootballCached(apiFootballCache, key, now)
         IN IF cached.truthy
              THEN setApiFootballCached(apiFootballCache, key, cached,
                                        API_FOOTBALL_SQUADS_TTL_MS, now)
              ELSE CacheAfterGet(apiFootballCache, key, now)
    ELSE apiFootballCache
apiFootballCacheRead(endpoint, params) ==
  IF endpoint = SQUADS
    THEN CacheAfterGet(apiFootballCache, CacheKey(endpoint, params), now)
    ELSE apiFootballCache

apiFootball(endpoint, params) ==
  /\ calls' = Append(calls, apiFootballCall(endpoint, params))
  /\ apiFootballCache' = apiFootballCacheRead(endpoint, params)
  /\ UNCHANGED <<now, apiFootballNextAllowedAt>>

\* A caller of the HTTP routes invokes apiFootball.
Submit(endpoint, params) ==
  /\ Len(calls) < MaxCalls
  /\ apiFootball(endpoint, params)

\* server.js:93-99: the chained callback starts.
StartRequest(i) ==
  /\ calls[i].st = "queued"
  /\ ChainReady(i)
  /\ LET waitMs == Max(0, apiFootballNextAllowedAt - now)
     IN IF waitMs > 0
          THEN /\ calls' = [calls EXCEPT ![i].st = "sleeping", ![i].wakeAt = now + waitMs]
               /\ UNCHANGED apiFootballNextAllowedAt
          ELSE Dispatch(i)
  /\ UNCHANGED <<now, apiFootballCache>>

\* server.js:96-99: the timer of sleep(waitMs) fires.
WakeRequest(i) ==
  /\ calls[i].st = "sleeping"
  /\ now >= calls[i].wakeAt
  /\ Dispatch(i)
  /\ UNCHANGED <<now, apiFootballCache>>

\* The provider answers with resp (or the connection fails); apiFootball
\* resumes after its await: server.js:179-208 (squads) and 217-244 (other
\* endpoints).
RespondTo(i, resp) ==
  /\ calls[i].st = "inflight"
  /\ LET c == calls[i]
         data == Payload(i, resp.data)
     IN IF ~Resolves(resp)
          THEN /\ calls' = [calls EXCEPT ![i].st = "rejected",
                              ![i].reason = ReasonOf(resp),
                              ![i].result = "error",
                              ![i].err = CaughtError(ReasonOf(resp), c.endpoint, c.params)]
               /\ UNCHANGED apiFootballCache
          ELSE IF hasUpstreamErrors(resp.data)
          THEN /\ calls' = [calls EXCEPT ![i].st = "fulfilled",
                              ![i].result = "error",
                              ![i].err = EmbeddedError(c.endpoint, c.params,
                                                       resp.data.errors)]
               /\ UNCHANGED apiFootballCache
          ELSE /\ calls' = [calls EXCEPT ![i].st = "fulfilled",
                              ![i].result = "data", ![i].payload = data]
               /\ apiFootballCache' =
                    IF c.endpoint = SQUADS
                      THEN setApiFootballCached(apiFootballCache,
                             CacheKey(c.endpoint, c.params), data,
                             API_FOOTBALL_SQUADS_TTL_MS, now)
                      ELSE apiFootballCache
  /\ UNCHANGED <<now, apiFootballNextAllowedAt>>

\* The answers the provider gives in the gateway specification: a body
\* with an empty error list, an empty body, a body with provider errors,
\* HTTP 429, HTTP 500, and a connection error.
ResponseOf(outcome) ==
  CASE outcome = "ok" -> Response(200, Body(JsArray(0)))
    [] outcome = "okEmptyBody" -> Response(200, EmptyBody)
    [] outcome = "okErrors" -> Response(200, Body(JsObject(1)))
    [] outcome = "http429" -> Response(429, EmptyBody)
    [] outcome = "http5xx" -> Response(500, EmptyBody)
    [] outcome = "neterr" -> NetworkError

Respond(i, outcome) == RespondTo(i, ResponseOf(outcome))

\* server.js:92 with a rejected predecessor: the promise returned by
\* scheduleApiFootballRequest rejects with the predecessor's reason, and the
\* catch block of apiFootball wraps it for this invocation.
PropagateRejection(i) ==
  /\ calls[i].st = "queued"
  /\ ChainRejected(i)
  /\ LET c == calls[i]
         reason == calls[ChainPrev(i)].reason
     IN calls' = [calls EXCEPT ![i].st = "rejected",
                     ![i].reason = reason,
                     ![i].result = "error",
                     ![i].err = CaughtError(reason, c.endpoint, c.params)]
  /\ UNCHANGED <<now, apiFootballNextAllowedAt, apiFootballCache>>

\* The clock advances; it is read relative to the first invocation.
Clock(limit) ==
  /\ now < limit
  /\ calls # <<>>
  /\ now' = now + 1
  /\ UNCHANGED <<apiFootballNextAllowedAt, calls, apiFootballCache>>

\* ------------------------------------------------------------- aggregator
\* computeFixturePoints and the team-defense rules, as laid down for the
\* scoring aggregator (an event list in provider order, the final score of
\* regulation plus extra time, and the shootout score).
HomeTeam == "40"
AwayTeam == "42"

Goal(detail, player, assist, team) ==
  [type |-> "Goal", detail |-> detail, player |-> player, assist |-> assist, team |-> team]
Card(detail, player, team) ==
  [type |-> "Card", detail |-> detail, player |-> player, assist |-> "none", team |-> team]

Line(points, reason, n) == [points |-> points, reason |-> reason, n |-> n]

EventLines(e) ==
  IF e.type = "Goal"
    THEN (IF e.detail = "Penalty"
            THEN << <<e.player, Line(2, "PK Goal", 1)>> >>
            ELSE IF e.detail = "Missed Penalty"
            THEN << <<e.player, Line(-1, "PK Miss", 1)>> >>
            ELSE << <<e.player, Line(3, "Goal", 1)>> >>)
         \o (IF e.assist # "none"
               THEN << <<e.assist, Line(1, "Assist", 1)>> >>
               ELSE <<>>)
    ELSE IF e.type = "Card" /\ e.detail = "Red Card"
    THEN << <<e.player, Line(-2, "Red Card", 1)>> >>
    ELSE <<>>

RECURSIVE AllLines(_)
AllLines(events) ==
  IF events = <<>> THEN <<>> ELSE EventLines(Head(events)) \o AllLines(Tail(events))

RECURSIVE SumLines(_)
SumLines(lines) ==
  IF lines = <<>> THEN 0 ELSE Head(lines).points + SumLines(Tail(lines))

StatRow(breakdown) == [points |-> SumLines(breakdown), breakdown |-> breakdown]

computeFixturePoints(events) ==
  LET lines == AllLines(events)
      players == {lines[i][1] : i \in DOMAIN lines}
  IN [p \in players |->
        LET mine == SelectSeq(lines, LAMBDA l : l[1] = p)
        IN StatRow([i \in DOMAIN mine |-> mine[i][2]])]

computeTeamDefenseShootout(pull, side) ==
  LET for == IF side = HomeTeam THEN 1 ELSE 2
      against == 3 - for
      win == \/ pull.goals[for] > pull.goals[against]
             \/ /\ pull.goals[for] = pull.goals[against]
                /\ pull.penalty[for] > pull.penalty[against]
      cleanSheet == pull.goals[against] + pull.penalty[against] = 0
      reds == Cardinality({i \in DOMAIN pull.events :
                /\ pull.events[i].type = "Card"
                /\ pull.events[i].detail = "Red Card"
                /\ pull.events[i].team = side})
  IN StatRow((IF win THEN <<Line(1, "Win", 1)>> ELSE <<>>)
             \o (IF cleanSheet THEN <<Line(2, "Clean Sheet", 1)>> ELSE <<>>)
             \o (IF reds > 0 THEN <<Line(0 - reds, "Red Card(s)", reds)>> ELSE <<>>))
computeTeamDefense(pull, side) ==
  LET for == IF side = HomeTeam THEN 1 ELSE 2
      against == 3 - for
      win == \/ pull.goals[for] > pull.goals[against]
             \/ /\ pull.goals[for] = pull.goals[against]
                /\ pull.penalty[for] > pull.penalty[against]
      cleanSheet == pull.goals[against] = 0
      reds == Cardinality({i \in DOMAIN pull.events :
                /\ pull.events[i].type = "Card"
                /\ pull.events[i].detail = "Red Card"
                /\ pull.events[i].team = side})
  IN StatRow((IF win THEN <<Line(1, "Win", 1)>> ELSE <<>>)
             \o (IF cleanSheet THEN <<Line(2, "Clean Sheet", 1)>> ELSE <<>>)
             \o (IF reds > 0 THEN <<Line(0 - reds, "Red Card(s)", reds)>> ELSE <<>>))

computeTeamPoints(pull) ==
  [t \in {HomeTeam, AwayTeam} |-> computeTeamDefense(pull, t)]

\* "Upsert one row per (fixture_id, player_id)": insert, or replace on
\* conflict of the key; other rows stay.
UpsertRows(table, f, rows) ==
  [k \in (DOMAIN table) \cup {<<f, id>> : id \in DOMAIN rows} |->
     IF k[1] = f /\ k[2] \in DOMAIN rows THEN rows[k[2]] ELSE table[k]]

RowsOf(table, f) ==
  [id \in {k[2] : k \in {x \in DOMAIN table : x[1] = f}} |-> table[<<f, id>>]]

RECURSIVE SumPoints(_, _, _)
SumPoints(table, fs, id) ==
  IF fs = {} THEN 0
  ELSE LET f == CHOOSE x \in fs : TRUE
       IN (IF <<f, id>> \in DOMAIN table THEN table[<<f, id>>].points ELSE 0)
            + SumPoints(table, fs \ {f}, id)

Stages == {"R16", "QF"}
PoolPlayers == {"A", "B"}
PoolTeams == {HomeTeam, AwayTeam}

\* updatePlayerPoolScores(leagueApiId, season): every stage that has fixtures
\* in the competition gets the sum of the stat rows of those fixtures.
updatePlayerPoolScoresAdding(scores, fx, mstats, tstats, comp) ==
  [e \in DOMAIN scores |->
     [st \in Stages |->
        LET fs == {f \in DOMAIN fx : /\ <<fx[f].league_api_id, fx[f].season>> = comp
                                      /\ fx[f].stage = st}
        IN IF fs = {} THEN scores[e][st]
           ELSE IF e \in PoolPlayers THEN scores[e][st] + SumPoints(mstats, fs, e)
           ELSE scores[e][st] + SumPoints(tstats, fs, e)]]
updatePlayerPoolScores(scores, fx, mstats, tstats, comp) ==
  [e \in DOMAIN scores |->
     [st \in Stages |->
        LET fs == {f \in DOMAIN fx : /\ <<fx[f].league_api_id, fx[f].season>> = comp
                                      /\ fx[f].stage = st}
        IN IF fs = {} THEN scores[e][st]
           ELSE IF e \in PoolPlayers THEN SumPoints(mstats, fs, e)
           ELSE SumPoints(tstats, fs, e)]]

\* "Call it once per distinct (league_api_id, season) that had fixture
\* updates": the invocations the tick makes, in order.
RECURSIVE UpdateOrderTwice(_)
UpdateOrderTwice(comps) ==
  IF comps = {} THEN <<>>
  ELSE LET c == CHOOSE x \in comps : TRUE
       IN <<c, c>> \o UpdateOrderTwice(comps \ {c})
RECURSIVE UpdateOrder(_)
UpdateOrder(comps) ==
  IF comps = {} THEN <<>>
  ELSE LET c == CHOOSE x \in comps : TRUE
       IN <<c>> \o UpdateOrder(comps \ {c})

RECURSIVE RunUpdates(_, _, _, _, _)
RunUpdates(scores, fx, mstats, tstats, order) ==
  IF order = <<>> THEN scores
  ELSE RunUpdates(updatePlayerPoolScores(scores, fx, mstats, tstats, Head(order)),
                  fx, mstats, tstats, Tail(order))

UpdateAll(scores, fx, mstats, tstats, comps) ==
  RunUpdates(scores, fx, mstats, tstats, UpdateOrder(comps))

\* ----------------------------------------------------------------- poller
MaxTicks == 2          \* ticks of the poller per behaviour
MaxPollTime == 10      \* last value of the clock while the poller runs

SeededFixtures == {"1", "2"}
LiveFixtures == <<"1", "2", "3">>      \* "3" was never seeded

Statuses == {"NS", "1H", "HT", "2H", "ET", "P", "FT", "AET", "PEN"}
ElapsedValues == {0, 1, 46, 47}

\* What the provider can report for a fixture at the time of a pull.
Pulls ==
  { [events |-> <<Goal("Normal Goal", "A", "B", HomeTeam)>>,
     goals |-> <<1, 0>>, penalty |-> <<0, 0>>],
    [events |-> <<>>,
     goals |-> <<0, 0>>, penalty |-> <<0, 0>>],
    [events |-> <<Goal("Penalty", "A", "none", HomeTeam), Card("Red Card", "B", AwayTeam)>>,
     goals |-> <<1, 0>>, penalty |-> <<0, 0>>] }

\* The sublists of the live fixtures, in provider order.
RECURSIVE SubLists(_)
SubLists(s) ==
  IF s = <<>> THEN {<<>>}
  ELSE LET rest == SubLists(Tail(s))
       IN rest \cup {<<Head(s)>> \o r : r \in rest}

LiveParams == << <<"live", Str("all")>>, <<"league", Num("2")>>, <<"season", Num("2025")>> >>
FixtureParams(f) == << <<"fixture", Num(f)>> >>

\* "If the fixture id is not in the fixtures table, skip it."
IsSeededAny(f) == TRUE
IsSeeded(f) == f \in DOMAIN fixtures

\* "A fixture already finalized is skipped unconditionally."
IsFinalizedNever(f) == FALSE
IsFinalized(f) == IF f \in DOMAIN fixtures THEN fixtures[f].finalized ELSE FALSE

\* The elapsed-based filter of the tick.
PollDecisionEarly(status, elapsed) ==
  IF status = "NS" \/ status = "HT" THEN "skip"
  ELSE IF status = "1H" THEN (IF elapsed >= 1 THEN "process" ELSE "skip")
  ELSE IF status = "2H" THEN (IF elapsed >= 46 THEN "process" ELSE "skip")
  ELSE IF status = "ET" \/ status = "P" THEN "process"
  ELSE "final"
PollDecision(status, elapsed) ==
  IF status = "NS" \/ status = "HT" THEN "skip"
  ELSE IF status = "1H" THEN (IF elapsed >= 1 THEN "process" ELSE "skip")
  ELSE IF status = "2H" THEN (IF elapsed >= 47 THEN "process" ELSE "skip")
  ELSE IF status = "ET" \/ status = "P" THEN "process"
  ELSE IF status = "FT" \/ status = "AET" \/ status = "PEN" THEN "final"
  ELSE "skip"

\* The awaited invocation has produced a usable response body.
Usable(i) == calls[i].result = "data" /\ calls[i].payload.truthy

\* The tick has consumed the result of invocation i: only the state of its
\* promise, which the chain depends on, and what was requested are kept.
Retire(c) ==
  [c EXCEPT !.issuedAt = 0, !.wakeAt = 0,
            !.dispatchedAt = IF c.dispatchedAt >= 0 THEN 0 ELSE -1,
            !.result = "consumed", !.payload = NoData, !.err = NoError,
            !.failedBefore = FALSE]

NoFixture == [id |-> "", status |-> "NS"]
NoEval == [fixture |-> "", status |-> "NS", elapsed |-> 0, decision |-> "skip",
           seeded |-> FALSE, wasFinalized |-> FALSE]

RetireAt(cs, i) == IF i = 0 THEN cs ELSE [cs EXCEPT ![i] = Retire(@)]

\* The tick invokes apiFootball and awaits it (consumed: the invocation whose
\* result the tick has just read, or 0).
PollCall(endpoint, params, consumed) ==
  /\ calls' = Append(RetireAt(calls, consumed), apiFootballCall(endpoint, params))
  /\ apiFootballCache' = apiFootballCacheRead(endpoint, params)
  /\ pollAwait' = Len(calls) + 1
  /\ UNCHANGED <<now, apiFootballNextAllowedAt>>

Logged(log, f, what) ==
  [g \in (DOMAIN log) \cup {f} |-> IF g = f THEN what ELSE log[g]]

FinalStatuses == {"FT", "AET", "PEN"}

\* "The tick is not reentrant": a tick is running from its live query to
\* its pool update.
TickRunningNever == FALSE
TickRunning == pollPc # "idle"

\* setInterval(pollLiveFixtures): GET /fixtures?live=all&league=..&season=..
PollStart ==
  /\ ~TickRunning
  /\ pollTick < MaxTicks
  /\ PollCall(LIVE, LiveParams, 0)
  /\ pollPc' = "awaitLive"
  /\ tickLog' = {}
  /\ pollUpdated' = {}
  /\ lastEval' = NoEval
  /\ pollSkipped' = FALSE
  /\ poolRuns' = <<>>
  /\ UNCHANGED <<fixtures, matchStats, teamMatchStats, poolScores, pollTick,
                 pollTodo, pollCur, lastPull>>
  /\ UNCHANGED appVars

\* The timer fires while the running tick is suspended at the invocation
\* it awaits: the callback returns at once and no tick is started.
PollTimerSkipped ==
  /\ TickRunning
  /\ pollPc \in {"awaitLive", "awaitEvents", "awaitStats"}
  /\ calls[pollAwait].result = "pending"
  /\ ~pollSkipped
  /\ pollSkipped' = TRUE
  /\ UNCHANGED gatewayVars
  /\ UNCHANGED <<fixtures, matchStats, teamMatchStats, poolScores, pollPc, pollTick,
                 pollAwait, pollTodo, pollCur, pollUpdated, lastEval, lastPull,
                 tickLog, poolRuns>>
  /\ UNCHANGED appVars

\* The live query returns (a failure is logged and ends the tick).
PollLiveReturned ==
  /\ pollPc = "awaitLive"
  /\ calls[pollAwait].result # "pending"
  /\ IF Usable(pollAwait)
       THEN \E list \in SubLists(LiveFixtures) : pollTodo' = list
       ELSE pollTodo' = <<>>
  /\ pollPc' = "loop"
  /\ pollSkipped' = FALSE
  /\ calls' = RetireAt(calls, pollAwait)
  /\ UNCHANGED <<now, apiFootballNextAllowedAt, apiFootballCache>>
  /\ UNCHANGED <<fixtures, matchStats, teamMatchStats, poolScores, pollTick,
                 pollAwait, pollCur, pollUpdated, lastEval, lastPull, tickLog,
                 poolRuns>>
  /\ UNCHANGED appVars

\* One live fixture is looked at: unknown or finalized fixtures and the
\* statuses of the filter are skipped, the others get their events fetched.
PollEvaluate ==
  /\ pollPc = "loop"
  /\ pollTodo # <<>>
  /\ \E status \in Statuses, elapsed \in ElapsedValues :
       LET f == Head(pollTodo)
           decision == IF ~IsSeeded(f) THEN "skip"
                       ELSE IF IsFinalized(f) THEN "skip"
                       ELSE PollDecision(status, elapsed)
       IN /\ lastEval' = [fixture |-> f, status |-> status, elapsed |-> elapsed,
                          decision |-> decision, seeded |-> f \in DOMAIN fixtures,
                          wasFinalized |-> IF f \in DOMAIN fixtures
                                             THEN fixtures[f].finalized ELSE FALSE]
          /\ pollTodo' = Tail(pollTodo)
          /\ IF decision = "skip"
               THEN UNCHANGED <<gatewayVars, pollPc, pollAwait, pollCur>>
               ELSE /\ PollCall(EVENTS, FixtureParams(f), 0)
                    /\ pollCur' = [id |-> f, status |-> status]
                    /\ pollPc' = "awaitEvents"
  /\ UNCHANGED <<fixtures, matchStats, teamMatchStats, poolScores, pollTick,
                 pollUpdated, lastPull, tickLog, pollSkipped, poolRuns>>
  /\ UNCHANGED appVars

\* A fetch of the current fixture failed: logged, the loop goes on.
PollFetchFailed ==
  /\ tickLog' = IF calls[pollAwait].dispatchedAt >= 0
                  THEN tickLog \cup {pollCur.id} ELSE tickLog
  /\ pollPc' = "loop"
  /\ pollCur' = NoFixture
  /\ lastEval' = NoEval
  /\ pollSkipped' = FALSE
  /\ calls' = RetireAt(calls, pollAwait)
  /\ UNCHANGED <<now, apiFootballNextAllowedAt, apiFootballCache>>
  /\ UNCHANGED <<fixtures, matchStats, teamMatchStats, poolScores, pollTick,
                 pollAwait, pollTodo, pollUpdated, lastPull, poolRuns>>
  /\ UNCHANGED appVars

\* The events call returns; the statistics call follows.
PollEventsReturned ==
  /\ pollPc = "awaitEvents"
  /\ calls[pollAwait].result # "pending"
  /\ IF Usable(pollAwait)
       THEN /\ PollCall(STATISTICS, FixtureParams(pollCur.id), pollAwait)
            /\ pollPc' = "awaitStats"
            /\ lastEval' = NoEval
            /\ pollSkipped' = FALSE
            /\ UNCHANGED <<fixtures, matchStats, teamMatchStats, poolScores, pollTick,
                           pollTodo, pollCur, pollUpdated, lastPull, tickLog,
                           poolRuns>>
       ELSE PollFetchFailed
  /\ UNCHANGED appVars

\* Mark the fixture finalized (UPDATE fixtures SET finalized = true WHERE id).
MarkFinalized(fx, f) ==
  IF f \in DOMAIN fx THEN [fx EXCEPT ![f].finalized = TRUE] ELSE fx

\* The statistics call returns: the points of the fixture are recomputed
\* from the full pull and upserted; a final status finalizes the fixture.
PollStatsReturned ==
  /\ pollPc = "awaitStats"
  /\ calls[pollAwait].result # "pending"
  /\ IF Usable(pollAwait)
       THEN \E pull \in Pulls :
              LET f == pollCur.id
              IN /\ matchStats' = UpsertRows(matchStats, f, computeFixturePoints(pull.events))
                 /\ teamMatchStats' = UpsertRows(teamMatchStats, f, computeTeamPoints(pull))
                 /\ fixtures' = IF pollCur.status \in FinalStatuses
                                  THEN MarkFinalized(fixtures, f) ELSE fixtures
                 /\ lastPull' = Logged(lastPull, f, pull)
                 /\ pollUpdated' = pollUpdated \cup
                      (IF f \in DOMAIN fixtures
                         THEN {<<fixtures[f].league_api_id, fixtures[f].season>>} ELSE {})
                 /\ pollPc' = "loop"
                 /\ pollCur' = NoFixture
                 /\ calls' = RetireAt(calls, pollAwait)
                 /\ UNCHANGED <<now, apiFootballNextAllowedAt, apiFootballCache>>
                 /\ pollSkipped' = FALSE
                 /\ UNCHANGED <<poolScores, pollTick, pollAwait, pollTodo, lastEval,
                                tickLog, poolRuns>>
       ELSE PollFetchFailed
  /\ UNCHANGED appVars

\* Every live fixture was looked at: the pool scores of the competitions
\* touched are recomputed and the tick ends.
PollFinish ==
  /\ pollPc = "loop"
  /\ pollTodo = <<>>
  /\ poolScores' = UpdateAll(poolScores, fixtures, matchStats, teamMatchStats, pollUpdated)
  /\ poolRuns' = UpdateOrder(pollUpdated)
  /\ pollTick' = pollTick + 1
  /\ pollPc' = "idle"
  /\ lastEval' = NoEval
  /\ pollSkipped' = FALSE
  /\ UNCHANGED gatewayVars
  /\ UNCHANGED <<fixtures, matchStats, teamMatchStats, pollAwait, pollTodo, pollCur,
                 pollUpdated, lastPull, tickLog>>
  /\ UNCHANGED appVars

\* ------------------------------------------------- gateway specification
Teams == {"40"}
FixtureIds == {"1"}

\* The callers of apiFootball in server.js: fetchSquadsFromApi (359) asks for
\* the squad of a team, the fixture route (928-929) for the fixture of the
\* URL.
CallerRequests ==
  {<<SQUADS, << <<"team", Num(t)>> >> >> : t \in Teams}
    \cup {<<EVENTS, << <<"fixture", Str(f)>> >> >> : f \in FixtureIds}

\* ---------------------------------------------------------------- leagues
\* server.js:28-40: a league as created, before any draft request.
NewLeague ==
  [draftOrder |-> <<>>, draftPicks |-> <<>>, draftOpen |-> FALSE, draftComplete |-> FALSE]

\* refreshPlayerPool is not running.
IdleRefresh == [pc |-> "idle"]

\* The fixtures table after seeding, the stat tables empty, the pool as
\* created by fetchSquadsFromApi (scores: {}).
SeededRow == [league_api_id |-> 2, season |-> 2025, stage |-> "R16", finalized |-> FALSE]

Init ==
  /\ now = 0
  /\ apiFootballNextAllowedAt = 0
  /\ calls = <<>>
  /\ apiFootballCache = <<>>
  /\ fixtures = [f \in SeededFixtures |-> SeededRow]
  /\ matchStats = <<>>
  /\ teamMatchStats = <<>>
  /\ poolScores = [e \in PoolPlayers \cup PoolTeams |-> [st \in Stages |-> 0]]
  /\ pollPc = "idle"
  /\ pollTick = 0
  /\ pollAwait = 0
  /\ pollTodo = <<>>
  /\ pollCur = NoFixture
  /\ pollUpdated = {}
  /\ lastEval = NoEval
  /\ lastPull = <<>>
  /\ tickLog = {}
  /\ pollSkipped = FALSE
  /\ poolRuns = <<>>
  /\ league = NewLeague
  /\ requests = <<>>
  /\ sent = <<>>
  /\ refresh = IdleRefresh
  /\ draftQueues = <<>>

CallerSubmits ==
  (\E r \in CallerRequests : Submit(r[1], r[2])) /\ UNCHANGED <<pollerVars, appVars>>
Starts ==
  (\E i \in 1..Len(calls) : StartRequest(i)) /\ UNCHANGED <<pollerVars, appVars>>
Wakes ==
  (\E i \in 1..Len(calls) : WakeRequest(i)) /\ UNCHANGED <<pollerVars, appVars>>
Responds ==
  (\E i \in 1..Len(calls), o \in Outcomes : Respond(i, o)) /\ UNCHANGED <<pollerVars, appVars>>
Propagates ==
  (\E i \in 1..Len(calls) : PropagateRejection(i)) /\ UNCHANGED <<pollerVars, appVars>>
Tick == Clock(MaxTime) /\ UNCHANGED <<pollerVars, appVars>>

Next ==
  \/ CallerSubmits
  \/ Starts
  \/ Wakes
  \/ Responds
  \/ Propagates
  \/ Tick

Spec == Init /\ [][Next]_vars

\* ---------------------------------------------- aggregator specification
\* The aggregator driven directly: the stat rows of fixture f are recomputed
\* from a full pull and upserted, then the pool of the competition is
\* updated, as a tick does for a fixture it processes.
CompOf(fx, f) == <<fx[f].league_api_id, fx[f].season>>

\* The competition whose player pool poolScores is.
PoolComp == <<SeededRow.league_api_id, SeededRow.season>>

Recompute(f, pull) ==
  /\ matchStats' = UpsertRows(matchStats, f, computeFixturePoints(pull.events))
  /\ teamMatchStats' = UpsertRows(teamMatchStats, f, computeTeamPoints(pull))
  /\ lastPull' = Logged(lastPull, f, pull)
  /\ poolScores' =
       IF CompOf(fixtures, f) = PoolComp
         THEN updatePlayerPoolScores(poolScores, fixtures, matchStats',
                                     teamMatchStats', PoolComp)
         ELSE poolScores
  /\ UNCHANGED gatewayVars
  /\ UNCHANGED <<fixtures, pollPc, pollTick, pollAwait, pollTodo, pollCur,
                 pollUpdated, lastEval, tickLog, pollSkipped, poolRuns>>
  /\ UNCHANGED appVars

\* Fixtures of two stages of the competition and one of another competition.
AggFixtures ==
  [f \in {"1", "2", "4", "5"} |->
     CASE f = "4" -> [SeededRow EXCEPT !.stage = "QF"]
       [] f = "5" -> [SeededRow EXCEPT !.league_api_id = SeededRow.league_api_id + 1]
       [] OTHER -> SeededRow]

AggInit ==
  /\ now = 0
  /\ apiFootballNextAllowedAt = 0
  /\ calls = <<>>
  /\ apiFootballCache = <<>>
  /\ fixtures = AggFixtures
  /\ matchStats = <<>>
  /\ teamMatchStats = <<>>
  /\ poolScores = [e \in PoolPlayers \cup PoolTeams |-> [st \in Stages |-> 0]]
  /\ pollPc = "idle"
  /\ pollTick = 0
  /\ pollAwait = 0
  /\ pollTodo = <<>>
  /\ pollCur = NoFixture
  /\ pollUpdated = {}
  /\ lastEval = NoEval
  /\ lastPull = <<>>
  /\ tickLog = {}
  /\ pollSkipped = FALSE
  /\ poolRuns = <<>>
  /\ league = NewLeague
  /\ requests = <<>>
  /\ sent = <<>>
  /\ refresh = IdleRefresh
  /\ draftQueues = <<>>

AggRecomputes == \E f \in DOMAIN fixtures, pull \in Pulls : Recompute(f, pull)

AggregatorSpec == AggInit /\ [][AggRecomputes]_vars

\* ------------------------------------------------- scoring specification
\* Team defense over final scores with and without a penalty shootout.
MaxGoals == 2          \* goals of a side in regulation plus extra time

ShootoutScores == {<<0, 0>>, <<4, 3>>, <<3, 4>>}

ScoringEvents ==
  {<<>>, <<Card("Red Card", "B", AwayTeam)>>, <<Card("Red Card", "A", HomeTeam)>>,
   <<Goal("Normal Goal", "A", "B", HomeTeam)>>}

ScoringPulls ==
  {p \in [events : ScoringEvents, goals : (0..MaxGoals) \X (0..MaxGoals),
          penalty : ShootoutScores] :
     p.penalty # <<0, 0>> => p.goals[1] = p.goals[2]}

ScoresFixture == \E pull \in ScoringPulls : Recompute("1", pull)

ScoringSpec == Init /\ [][ScoresFixture]_vars

\* ------------------------------------------------ response specification
\* The gateway under every shape of provider answer: HTTP 200 with each
\* kind of "errors" member, empty bodies, error statuses and a connection
\* error.  The clock stands still, so the first scheduled request is the one
\* that is answered.
ErrorValues ==
  {JsUndefined, JsNull, JsArray(0), JsArray(1), JsObject(0), JsObject(1),
   JsString(0), JsString(1), JsNumber(0), JsNumber(1), JsBoolean(0), JsBoolean(1)}

HttpErrorStatuses == {404, 429, 500, 503}

Responses ==
  {Response(200, Body(e)) : e \in ErrorValues}
    \cup {Response(200, EmptyBody), Response(204, EmptyBody), NetworkError}
    \cup {Response(st, EmptyBody) : st \in HttpErrorStatuses}

RespondsWith ==
  (\E i \in 1..Len(calls), r \in Responses : RespondTo(i, r)) /\ UNCHANGED <<pollerVars, appVars>>

ResponseNext ==
  \/ CallerSubmits
  \/ Starts
  \/ RespondsWith
  \/ Propagates

ResponseSpec == Init /\ [][ResponseNext]_vars

\* ----------------------------------------------------- key specification
\* Squads requests whose params objects hold the same members in every
\* insertion order, next to the request of fetchSquadsFromApi.
RECURSIVE Orderings(_)
Orderings(S) ==
  IF S = {} THEN {<<>>}
  ELSE UNION {{<<x>> \o r : r \in Orderings(S \ {x})} : x \in S}

ParamPairs ==
  {<<"team", Num("40")>>, <<"league", Num("2")>>, <<"season", Num("2025")>>}

ParamMaps == Orderings(ParamPairs) \cup {<< <<"team", Num(t)>> >> : t \in Teams}

KeySubmits ==
  (\E p \in ParamMaps : Submit(SQUADS, p)) /\ UNCHANGED <<pollerVars, appVars>>

KeyNext ==
  \/ KeySubmits
  \/ Starts
  \/ Responds
  \/ Propagates

KeySpec == Init /\ [][KeyNext]_vars

\* ------------------------------------------------ liveness specification
\* Time passes while a request sleeps for its slot: the longest wait ends
\* one interval after the previous dispatch, so the clock never needs to go
\* beyond one interval per invocation.
LiveTick ==
  /\ \E i \in 1..Len(calls) : calls[i].st = "sleeping" /\ now < calls[i].wakeAt
  /\ Clock(API_FOOTBALL_MIN_INTERVAL_MS * MaxCalls)
  /\ UNCHANGED <<pollerVars, appVars>>

LiveNext ==
  \/ CallerSubmits
  \/ Starts
  \/ Wakes
  \/ Responds
  \/ Propagates
  \/ LiveTick

\* The event loop runs every callback that is ready and fires every timer
\* that is due.  Nothing makes the provider answer: axios.get is called
\* without a timeout (server.js:174-177, 212-215).
LiveSpec ==
  /\ Init /\ [][LiveNext]_vars
  /\ WF_vars(Starts) /\ WF_vars(Wakes) /\ WF_vars(Propagates) /\ WF_vars(LiveTick)

\* ---------------------------------------------------- HTTP specification
\* The football routes (server.js:895-955): each request invokes apiFootball
\* and answers with the data or, from its catch block, with
\* sendApiFootballError.
NoHeader == ""

\* The JSON body of an error response; a plain error has only its message.
ErrorBody(structured, e) ==
  [structured |-> structured,
   upstreamStatus |-> IF structured THEN e.upstreamStatus ELSE Undefined,
   upstreamErrors |-> IF structured THEN e.upstreamErrors ELSE JsUndefined,
   endpoint |-> IF structured THEN e.endpoint ELSE "",
   params |-> IF structured THEN e.params ELSE <<>>]

\* server.js:149-161
sendApiFootballErrorNoHeader(e) ==
  IF e.isApiFootballError
    THEN [status |-> e.status, retryAfter |-> NoHeader, body |-> ErrorBody(TRUE, e)]
    ELSE [status |-> 500, retryAfter |-> NoHeader, body |-> ErrorBody(FALSE, e)]
sendApiFootballError(e) ==
  IF e.isApiFootballError
    THEN [status |-> e.status,
          retryAfter |-> IF e.status = 429 /\ e.retryAfterSeconds # Undefined
                           THEN ToString(e.retryAfterSeconds) ELSE NoHeader,
          body |-> ErrorBody(TRUE, e)]
    ELSE [status |-> 500, retryAfter |-> NoHeader, body |-> ErrorBody(FALSE, e)]

\* res.json(data)
DataResponse == [status |-> 200, retryAfter |-> NoHeader, body |-> ErrorBody(FALSE, NoError)]

\* GET /api/football/players/squads?team= and GET /api/football/fixtures.
LeagueSeasonParams == << <<"league", Str("2")>>, <<"season", Str("2025")>> >>

HttpRequests ==
  {<<SQUADS, << <<"team", Str(t)>> >> >> : t \in Teams}
    \cup {<<LIVE, LeagueSeasonParams>>}

MaxHttpRequests == 2     \* requests to the football routes per behaviour

HttpSubmits ==
  /\ Len(calls) < MaxHttpRequests
  /\ \E r \in HttpRequests : Submit(r[1], r[2])
  /\ UNCHANGED <<pollerVars, appVars>>

\* The provider's answers: data, provider errors in a 200 body, HTTP 429,
\* HTTP 503, no answer at all.
HttpAnswers ==
  {Response(200, Body(JsArray(0))), Response(200, Body(JsObject(1))),
   Response(429, EmptyBody), Response(503, EmptyBody), NetworkError}

HttpResponds ==
  (\E i \in 1..Len(calls), r \in HttpAnswers : RespondTo(i, r))
    /\ UNCHANGED <<pollerVars, appVars>>

\* The awaited apiFootball of request i has returned or thrown: the route
\* answers.
RouteReplies(i) ==
  /\ i \notin DOMAIN sent
  /\ calls[i].result # "pending"
  /\ sent' = (i :> (IF calls[i].result = "error"
                      THEN sendApiFootballError(calls[i].err)
                      ELSE DataResponse)) @@ sent
  /\ UNCHANGED <<gatewayVars, pollerVars, league, requests, refresh, draftQueues>>

Replies == \E i \in 1..Len(calls) : RouteReplies(i)

HttpNext ==
  \/ HttpSubmits
  \/ Starts
  \/ Wakes
  \/ HttpResponds
  \/ Propagates
  \/ LiveTick
  \/ Replies

HttpSpec == Init /\ [][HttpNext]_vars

\* ------------------------------------------------- refresh specification
\* POST /api/leagues/:id/players/refresh -> refreshPlayerPool(leagueApiId,
\* season).  The row of player_pools is poolScores: the entries of PoolTeams
\* are its teams column, the other entries its players column.
SquadTeams == <<HomeTeam, AwayTeam>>       \* COMPETITION_TEAMS[leagueApiId]

\* The players the provider lists in the squad of a team.
SquadOf(team) == IF team = HomeTeam THEN {"A"} ELSE {"B"}

ZeroScores == [st \in Stages |-> 0]        \* scores: {}

TeamParams(t) == << <<"team", Num(t)>> >>

\* server.js:357-359: the next squad is requested and awaited.
RefreshCall(r, consumed) ==
  /\ calls' = Append(RetireAt(calls, consumed),
                     apiFootballCall(SQUADS, TeamParams(Head(r.todo))))
  /\ apiFootballCache' = apiFootballCacheRead(SQUADS, TeamParams(Head(r.todo)))
  /\ refresh' = [r EXCEPT !.pc = "await", !.await = Len(calls) + 1]
  /\ UNCHANGED <<now, apiFootballNextAllowedAt>>

\* server.js:422-430: the stored row is read, then fetchSquadsFromApi starts.
RefreshStart ==
  /\ refresh.pc = "idle"
  /\ Len(calls) + Len(SquadTeams) <= MaxCalls
  /\ RefreshCall([pc |-> "start", existing |-> poolScores, todo |-> SquadTeams,
                  await |-> 0, fresh |-> {}], 0)
  /\ UNCHANGED <<pollerVars, league, requests, sent, draftQueues>>

\* server.js:360-380: the squad call returned or threw; a failure counts
\* as an empty squad.  The next team follows, or the merge.
RefreshSquadReturned ==
  /\ refresh.pc = "await"
  /\ calls[refresh.await].result # "pending"
  /\ LET team == Head(refresh.todo)
         found == IF Usable(refresh.await) THEN SquadOf(team) ELSE {}
         r == [refresh EXCEPT !.fresh = @ \cup found, !.todo = Tail(@)]
     IN IF r.todo # <<>>
          THEN RefreshCall(r, refresh.await)
          ELSE /\ refresh' = [r EXCEPT !.pc = "write"]
               /\ calls' = RetireAt(calls, refresh.await)
               /\ UNCHANGED <<now, apiFootballNextAllowedAt, apiFootballCache>>
  /\ UNCHANGED <<pollerVars, league, requests, sent, draftQueues>>

\* server.js:431-440: existing entries first, then the fresh players whose
\* id is not stored yet; the stored teams unless there were none.
MergePool(existing, fresh) ==
  LET teams == IF (DOMAIN existing) \cap PoolTeams # {} THEN {} ELSE PoolTeams
  IN [e \in (DOMAIN existing) \cup fresh \cup teams |->
        IF e \in DOMAIN existing THEN existing[e] ELSE ZeroScores]

\* server.js:442-450: the merged row replaces the stored row.
RefreshWrite ==
  /\ refresh.pc = "write"
  /\ poolScores' = MergePool(refresh.existing, refresh.fresh)
  /\ refresh' = IdleRefresh
  /\ UNCHANGED gatewayVars
  /\ UNCHANGED <<fixtures, matchStats, teamMatchStats, pollPc, pollTick, pollAwait,
                 pollTodo, pollCur, pollUpdated, lastEval, lastPull, tickLog,
                 pollSkipped, poolRuns>>
  /\ UNCHANGED <<league, requests, sent, draftQueues>>

\* The scores of the pool are written by the aggregator for fixture 1.
ScoresWritten == \E pull \in Pulls : Recompute("1", pull)

\* The stored row: player A with or without the teams.
RefreshInit ==
  /\ now = 0
  /\ apiFootballNextAllowedAt = 0
  /\ calls = <<>>
  /\ apiFootballCache = <<>>
  /\ fixtures = [f \in SeededFixtures |-> SeededRow]
  /\ matchStats = <<>>
  /\ teamMatchStats = <<>>
  /\ \E teams \in {{}, PoolTeams} : poolScores = [e \in {"A"} \cup teams |-> ZeroScores]
  /\ pollPc = "idle"
  /\ pollTick = 0
  /\ pollAwait = 0
  /\ pollTodo = <<>>
  /\ pollCur = NoFixture
  /\ pollUpdated = {}
  /\ lastEval = NoEval
  /\ lastPull = <<>>
  /\ tickLog = {}
  /\ pollSkipped = FALSE
  /\ poolRuns = <<>>
  /\ league = NewLeague
  /\ requests = <<>>
  /\ sent = <<>>
  /\ refresh = IdleRefresh
  /\ draftQueues = <<>>

RefreshNext ==
  \/ RefreshStart
  \/ RefreshSquadReturned
  \/ RefreshWrite
  \/ ScoresWritten
  \/ Starts
  \/ Wakes
  \/ Responds
  \/ Propagates
  \/ LiveTick

RefreshSpec == RefreshInit /\ [][RefreshNext]_vars

\* ---------------------------------------------------- draft specification
\* server.js:778: the rounds of the snake draft (8, scaled).
DRAFT_ROUNDS == 2
MaxRequests == 2       \* league requests open at a time

Managers == {"m1", "m2"}
DraftOrders == {<<>>, <<"m1">>, <<"m1", "m2">>}

\* A field the request body does not carry.
Missing == [type |-> "undefined", text |-> ""]
BodyPlayerIds == {Num("7"), Str("7"), Str("9"), Str("11")}

Reverse(s) == [i \in 1..Len(s) |-> s[Len(s) + 1 - i]]

\* server.js:254-270; a manager of the draft order is given by its id.
generateSnakePicks(draftOrder, rounds) ==
  IF Len(draftOrder) = 0 THEN <<>>
  ELSE [k \in 1..(rounds * Len(draftOrder)) |->
         LET r == (k - 1) \div Len(draftOrder)
             i == (k - 1) % Len(draftOrder)
             order == IF r % 2 = 0 THEN draftOrder ELSE Reverse(draftOrder)
         IN [round |-> r + 1, pickInRound |-> i + 1,
             overall |-> r * Len(draftOrder) + i + 1, managerId |-> order[i + 1]]]

NoPick == [overall |-> 0, round |-> 0, pickInRound |-> 0, managerId |-> "",
           playerId |-> Missing]

\* What a handler decides from the league it read: the response, and the
\* columns its UPDATE sets (cols) with their values (set).
Rejected(status, error) ==
  [status |-> status, error |-> error, pick |-> NoPick, cols |-> {}, set |-> NewLeague]
Accepted(pick, cols, set) ==
  [status |-> 200, error |-> "", pick |-> pick, cols |-> cols, set |-> set]
NoOutcome == Rejected(0, "")

Drafted(picks, playerId) ==
  \E k \in 1..Len(picks) : String(picks[k].playerId) = String(playerId)

\* server.js:735-749
PostDraftOrder(lg, req) ==
  IF ~req.admin THEN Rejected(403, "Unauthorized")
  ELSE Accepted(NoPick, {"draftOrder"}, [lg EXCEPT !.draftOrder = req.order])

\* server.js:752-766
PostDraftStatus(lg, req) ==
  IF ~req.admin THEN Rejected(403, "Unauthorized")
  ELSE Accepted(NoPick, {"draftOpen"}, [lg EXCEPT !.draftOpen = req.open])

\* server.js:769-813 without the check of line 788-789.
PostPickUnchecked(lg, req) ==
  LET snakePicks == generateSnakePicks(lg.draftOrder, DRAFT_ROUNDS)
      currentPickIndex == Len(lg.draftPicks)
  IN IF ~lg.draftOpen THEN Rejected(400, "Draft is not open")
     ELSE IF currentPickIndex >= Len(snakePicks) THEN Rejected(400, "Draft is complete")
     ELSE LET currentPick == snakePicks[currentPickIndex + 1]
              pick == [overall |-> currentPickIndex + 1, round |-> currentPick.round,
                       pickInRound |-> currentPick.pickInRound,
                       managerId |-> currentPick.managerId,
                       playerId |-> String(req.playerId)]
              newPicks == Append(lg.draftPicks, pick)
              draftComplete == Len(newPicks) >= Len(snakePicks)
          IN IF ~req.admin /\ currentPick.managerId # req.managerId
               THEN Rejected(403, "Not your turn")
             ELSE Accepted(pick, {"draftPicks", "draftOpen", "draftComplete"},
                           [lg EXCEPT !.draftPicks = newPicks,
                                      !.draftOpen = IF draftComplete THEN FALSE
                                                    ELSE lg.draftOpen,
                                      !.draftComplete = draftComplete])

\* server.js:769-813
PostPick(lg, req) ==
  LET snakePicks == generateSnakePicks(lg.draftOrder, DRAFT_ROUNDS)
      currentPickIndex == Len(lg.draftPicks)
  IN IF ~lg.draftOpen THEN Rejected(400, "Draft is not open")
     ELSE IF currentPickIndex >= Len(snakePicks) THEN Rejected(400, "Draft is complete")
     ELSE LET currentPick == snakePicks[currentPickIndex + 1]
              pick == [overall |-> currentPickIndex + 1, round |-> currentPick.round,
                       pickInRound |-> currentPick.pickInRound,
                       managerId |-> currentPick.managerId,
                       playerId |-> String(req.playerId)]
              newPicks == Append(lg.draftPicks, pick)
              draftComplete == Len(newPicks) >= Len(snakePicks)
          IN IF ~req.admin /\ currentPick.managerId # req.managerId
               THEN Rejected(403, "Not your turn")
             ELSE IF Drafted(lg.draftPicks, req.playerId)
               THEN Rejected(400, "Player already drafted")
             ELSE Accepted(pick, {"draftPicks", "draftOpen", "draftComplete"},
                           [lg EXCEPT !.draftPicks = newPicks,
                                      !.draftOpen = IF draftComplete THEN FALSE
                                                    ELSE lg.draftOpen,
                                      !.draftComplete = draftComplete])

\* server.js:816-835
DeletePick(lg, req) ==
  IF ~req.admin THEN Rejected(403, "Unauthorized")
  ELSE IF Len(lg.draftPicks) = 0 THEN Rejected(400, "No picks to undo")
  ELSE Accepted(lg.draftPicks[Len(lg.draftPicks)],
                {"draftPicks", "draftOpen", "draftComplete"},
                [lg EXCEPT !.draftPicks = SubSeq(lg.draftPicks, 1, Len(lg.draftPicks) - 1),
                           !.draftOpen = TRUE,
                           !.draftComplete = FALSE])

\* server.js:837-867; req.playerId is the body's inPlayerId.
PostSwapPick(lg, req) ==
  LET picks == lg.draftPicks
      found == {k \in 1..Len(picks) :
                  /\ String(picks[k].playerId) = String(req.outPlayerId)
                  /\ picks[k].managerId = req.managerId}
  IN IF ~req.admin THEN Rejected(403, "Unauthorized")
     ELSE IF req.outPlayerId = Missing \/ req.playerId = Missing \/ req.managerId = ""
       THEN Rejected(400, "Missing required fields")
     ELSE IF found = {} THEN Rejected(404, "Pick not found for this manager")
     ELSE IF Drafted(picks, req.playerId)
       THEN Rejected(400, "Replacement player already drafted")
     ELSE LET pickIndex == CHOOSE k \in found : \A j \in found : k <= j
          IN Accepted(NoPick, {"draftPicks"},
                      [lg EXCEPT !.draftPicks[pickIndex].playerId = String(req.playerId)])

Handle(lg, req) ==
  CASE req.op = "draft-order"  -> PostDraftOrder(lg, req)
    [] req.op = "draft-status" -> PostDraftStatus(lg, req)
    [] req.op = "pick"         -> PostPick(lg, req)
    [] req.op = "undo-pick"    -> DeletePick(lg, req)
    [] req.op = "swap-pick"    -> PostSwapPick(lg, req)

\* The requests of the draft routes, by route and by what the handler reads
\* of the headers and the body.
LeagueRequest(op, admin, managerId, playerId, outPlayerId, order, open) ==
  [op |-> op, admin |-> admin, managerId |-> managerId, playerId |-> playerId,
   outPlayerId |-> outPlayerId, order |-> order, open |-> open,
   pc |-> "getLeague", out |-> NoOutcome]

PickRequests ==
  {LeagueRequest("pick", admin, m, p, Missing, <<>>, FALSE) :
     admin \in BOOLEAN, m \in Managers, p \in BodyPlayerIds}

LeagueRequests ==
  PickRequests
  \cup {LeagueRequest("draft-order", admin, "", Missing, Missing, o, FALSE) :
          admin \in BOOLEAN, o \in DraftOrders}
  \cup {LeagueRequest("draft-status", admin, "", Missing, Missing, <<>>, open) :
          admin \in BOOLEAN, open \in BOOLEAN}
  \cup {LeagueRequest("undo-pick", admin, "", Missing, Missing, <<>>, FALSE) :
          admin \in BOOLEAN}
  \cup {LeagueRequest("swap-pick", admin, m, p, q, <<>>, FALSE) :
          admin \in BOOLEAN, m \in Managers,
          p \in {Num("7"), Str("9"), Missing}, q \in {Str("7"), Str("9")}}

\* A request arrives and its handler awaits getLeague.
Arrives(req) ==
  /\ Len(requests) < MaxRequests
  /\ requests' = Append(requests, req)
  /\ UNCHANGED <<gatewayVars, pollerVars, league, sent, refresh, draftQueues>>

\* getLeague returns (server.js:272-306); the handler checks the request
\* against the league it read, answers a rejection, or issues its UPDATE.
Reads(i) ==
  /\ requests[i].pc = "getLeague"
  /\ LET out == Handle(league, requests[i])
     IN requests' = [requests EXCEPT ![i].out = out,
                                     ![i].pc = IF out.status = 200 THEN "update"
                                               ELSE "answered"]
  /\ UNCHANGED <<gatewayVars, pollerVars, league, sent, refresh, draftQueues>>

\* The UPDATE sets its columns in the stored row.
Updates(i) ==
  /\ requests[i].pc = "update"
  /\ league' = [c \in DOMAIN league |->
                  IF c \in requests[i].out.cols THEN requests[i].out.set[c]
                  ELSE league[c]]
  /\ requests' = [requests EXCEPT ![i].pc = "respond"]
  /\ UNCHANGED <<gatewayVars, pollerVars, sent, refresh, draftQueues>>

\* res.json({ success: true, ... })
Succeeds(i) ==
  /\ requests[i].pc = "respond"
  /\ requests' = [requests EXCEPT ![i].pc = "answered"]
  /\ UNCHANGED <<gatewayVars, pollerVars, league, sent, refresh, draftQueues>>

\* The oldest request, once answered, is forgotten.
Closes ==
  /\ requests # <<>>
  /\ Head(requests).pc = "answered"
  /\ requests' = Tail(requests)
  /\ UNCHANGED <<gatewayVars, pollerVars, league, sent, refresh, draftQueues>>

ArrivesAlone == \E req \in LeagueRequests : requests = <<>> /\ Arrives(req)
PickArrives == \E req \in PickRequests : Arrives(req)
GetLeagueReturns == \E i \in 1..Len(requests) : Reads(i)
UpdateRuns == \E i \in 1..Len(requests) : Updates(i)
SuccessSent == \E i \in 1..Len(requests) : Succeeds(i)

\* The requests of a league handled one after the other.
DraftNext ==
  \/ ArrivesAlone
  \/ GetLeagueReturns
  \/ UpdateRuns
  \/ SuccessSent
  \/ Closes

DraftSpec == Init /\ [][DraftNext]_vars

\* Pick requests handled concurrently, on a league whose draft is open.
OpenLeague(order) ==
  [draftOrder |-> order, draftPicks |-> <<>>, draftOpen |-> TRUE, draftComplete |-> FALSE]

DraftRaceInit ==
  /\ now = 0
  /\ apiFootballNextAllowedAt = 0
  /\ calls = <<>>
  /\ apiFootballCache = <<>>
  /\ fixtures = [f \in SeededFixtures |-> SeededRow]
  /\ matchStats = <<>>
  /\ teamMatchStats = <<>>
  /\ poolScores = [e \in PoolPlayers \cup PoolTeams |-> [st \in Stages |-> 0]]
  /\ pollPc = "idle"
  /\ pollTick = 0
  /\ pollAwait = 0
  /\ pollTodo = <<>>
  /\ pollCur = NoFixture
  /\ pollUpdated = {}
  /\ lastEval = NoEval
  /\ lastPull = <<>>
  /\ tickLog = {}
  /\ pollSkipped = FALSE
  /\ poolRuns = <<>>
  /\ \E order \in DraftOrders \ {<<>>} : league = OpenLeague(order)
  /\ requests = <<>>
  /\ sent = <<>>
  /\ refresh = IdleRefresh
  /\ draftQueues = <<>>

DraftRaceNext ==
  \/ PickArrives
  \/ GetLeagueReturns
  \/ UpdateRuns
  \/ SuccessSent
  \/ Closes

DraftRaceSpec == DraftRaceInit /\ [][DraftRaceNext]_vars

\* ---------------------------------------------------- queue specification
MaxQueue == 2          \* entries of the list a reorder request carries

QueueManagers == {"m1", "m2"}
QueuePlayerIds == {Num("7"), Str("7"), Str("9")}

\* The lists over ids of at most n entries.
RECURSIVE ListsUpTo(_, _)
ListsUpTo(ids, n) ==
  IF n = 0 THEN {<<>>}
  ELSE LET shorter == ListsUpTo(ids, n - 1)
       IN shorter \cup {Append(q, id) : q \in shorter, id \in ids}

\* server.js:609-615
getQueueRow(managerId) ==
  IF managerId \in DOMAIN draftQueues THEN draftQueues[managerId] ELSE <<>>

\* new Set(list.map(id => String(id)))
StringSet(list) == {String(list[k]) : k \in 1..Len(list)}

Queued(queue, pid) ==
  [status |-> 200, error |-> "", write |-> FALSE, queue |-> queue]
Stored(queue) ==
  [status |-> 200, error |-> "", write |-> TRUE, queue |-> queue]
Refused(error) ==
  [status |-> 400, error |-> error, write |-> FALSE, queue |-> <<>>]
Unanswered == [status |-> 0, error |-> "", write |-> FALSE, queue |-> <<>>]

\* server.js:639-656, after the league and the body were checked.
PostQueue(queue, req) ==
  LET pid == String(req.playerId)
  IN IF \E k \in 1..Len(queue) : String(queue[k]) = pid
       THEN Queued(queue, pid)
     ELSE Stored(Append(queue, pid))

\* server.js:658-672
DeleteQueue(queue, req) ==
  LET pid == String(req.playerId)
  IN Stored(SelectSeq(queue, LAMBDA id : String(id) # pid))

\* server.js:674-691
PutQueue(existing, req) ==
  LET existingSet == StringSet(existing)
      incomingSet == StringSet(req.incoming)
  IN IF \/ Cardinality(existingSet) # Cardinality(incomingSet)
        \/ \E id \in incomingSet : id \notin existingSet
       THEN Refused("Queue must contain the same player IDs (reorder only)")
     ELSE Stored(req.incoming)

HandleQueue(queue, req) ==
  CASE req.op = "add"     -> PostQueue(queue, req)
    [] req.op = "remove"  -> DeleteQueue(queue, req)
    [] req.op = "reorder" -> PutQueue(queue, req)

\* server.js:643-644, 662-663, 678-679: the checks of the body.
BodyRefused(req) ==
  CASE req.op = "add"     -> req.managerId = "" \/ req.playerId = Missing
    [] req.op = "remove"  -> req.managerId = ""
    [] req.op = "reorder" -> req.managerId = "" \/ ~req.isArray

QueueRequest(op, managerId, playerId, isArray, incoming) ==
  [op |-> op, managerId |-> managerId, playerId |-> playerId, isArray |-> isArray,
   incoming |-> incoming, pc |-> "getLeague", out |-> Unanswered]

QueueRequests ==
  {QueueRequest("add", m, p, FALSE, <<>>) :
     m \in QueueManagers \cup {""}, p \in QueuePlayerIds \cup {Missing}}
  \cup {QueueRequest("remove", m, p, FALSE, <<>>) :
          m \in QueueManagers \cup {""}, p \in QueuePlayerIds}
  \cup {QueueRequest("reorder", m, Missing, TRUE, q) :
          m \in QueueManagers \cup {""}, q \in ListsUpTo(QueuePlayerIds, MaxQueue)}
  \cup {QueueRequest("reorder", m, Missing, FALSE, <<>>) : m \in QueueManagers}

\* getLeague returns and the handler checks the body.
LeagueFound(i) ==
  /\ requests[i].pc = "getLeague"
  /\ requests' = [requests EXCEPT
                    ![i].pc = IF BodyRefused(requests[i]) THEN "answered"
                              ELSE "getQueueRow",
                    ![i].out = IF BodyRefused(requests[i]) THEN Refused("Missing fields")
                               ELSE Unanswered]
  /\ UNCHANGED <<gatewayVars, pollerVars, league, sent, refresh, draftQueues>>

\* getQueueRow returns; the handler answers or issues its upsert.
QueueRead(i) ==
  /\ requests[i].pc = "getQueueRow"
  /\ LET out == HandleQueue(getQueueRow(requests[i].managerId), requests[i])
     IN requests' = [requests EXCEPT ![i].out = out,
                                     ![i].pc = IF out.write THEN "update" ELSE "answered"]
  /\ UNCHANGED <<gatewayVars, pollerVars, league, sent, refresh, draftQueues>>

\* server.js:617-624
upsertQueue(i) ==
  /\ requests[i].pc = "update"
  /\ draftQueues' = (requests[i].managerId :> requests[i].out.queue) @@ draftQueues
  /\ requests' = [requests EXCEPT ![i].pc = "respond"]
  /\ UNCHANGED <<gatewayVars, pollerVars, league, sent, refresh>>

QueueArrives == \E req \in QueueRequests : requests = <<>> /\ Arrives(req)
LeagueFoundFor == \E i \in 1..Len(requests) : LeagueFound(i)
QueueRowReturns == \E i \in 1..Len(requests) : QueueRead(i)
UpsertRuns == \E i \in 1..Len(requests) : upsertQueue(i)

\* The queue requests of a league handled one after the other.
QueueNext ==
  \/ QueueArrives
  \/ LeagueFoundFor
  \/ QueueRowReturns
  \/ UpsertRuns
  \/ SuccessSent
  \/ Closes

QueueSpec == Init /\ [][QueueNext]_vars

\* -------------------------------------------------- poller specification
\* The poller is the only caller of the gateway; the clock is followed
\* while a request waits for its slot.
PollTick ==
  /\ \E i \in 1..Len(calls) : calls[i].st = "sleeping" /\ now < calls[i].wakeAt
  /\ Clock(MaxPollTime)
  /\ UNCHANGED <<pollerVars, appVars>>

PollerNext ==
  \/ PollStart
  \/ PollLiveReturned
  \/ PollEvaluate
  \/ PollEventsReturned
  \/ PollStatsReturned
  \/ PollFinish
  \/ PollTimerSkipped
  \/ Starts
  \/ Wakes
  \/ Responds
  \/ Propagates
  \/ PollTick

PollerSpec == Init /\ [][PollerNext]_vars

\* ======================================================== gateway claims
Dispatched(i) == calls[i].dispatchedAt >= 0
Settled(i) == calls[i].result # "pending"
Scheduled(i) == calls[i].st # "hit"
Abs(x) == IF x >= 0 THEN x ELSE 0 - x

\* C1: at most one upstream request is in flight at any time, and a request
\* is dispatched only when every request scheduled before it has settled.
C1_OneRequestInFlight ==
  /\ Cardinality({i \in 1..Len(calls) : calls[i].st = "inflight"}) <= 1
  /\ \A i, j \in 1..Len(calls) :
       (i < j /\ Scheduled(i) /\ Dispatched(j)) => Settled(i)

\* Two callers wait behind a request that is in flight.
C1_Witness ==
  /\ Len(calls) = 3
  /\ calls[1].st = "inflight"
  /\ calls[2].st = "queued"
  /\ calls[3].st = "queued"

\* C2: the dispatch times of any two dispatched requests (hence of any two
\* consecutive ones) differ by at least API_FOOTBALL_MIN_INTERVAL_MS.
C2_MinimumInterval ==
  \A i, j \in 1..Len(calls) :
    (i # j /\ Dispatched(i) /\ Dispatched(j))
      => Abs(calls[j].dispatchedAt - calls[i].dispatchedAt) >= API_FOOTBALL_MIN_INTERVAL_MS

\* A request answered with provider errors is followed by a request that had
\* to sleep and went out exactly one interval later.
C2_Witness ==
  \E i, j \in 1..Len(calls) :
    /\ i < j
    /\ calls[i].result = "error"
    /\ Dispatched(i)
    /\ calls[j].issuedAt < calls[i].dispatchedAt + API_FOOTBALL_MIN_INTERVAL_MS
    /\ calls[j].dispatchedAt = calls[i].dispatchedAt + API_FOOTBALL_MIN_INTERVAL_MS

\* C3: after a gateway call has failed, every call made afterwards is still
\* dispatched to the provider as its own request.
C3_FailureIsRecoverable ==
  \A j \in 1..Len(calls) :
    (calls[j].failedBefore /\ Scheduled(j) /\ Settled(j)) => Dispatched(j)

\* C9: a squads cache entry is never returned at now >= expiresAt, and every
\* miss or expiry gets its own upstream request dispatched.
C9_ExpiredNeverServedMissFetches ==
  \A i \in 1..Len(calls) :
    calls[i].endpoint = SQUADS =>
      /\ calls[i].st = "hit" => calls[i].issuedAt < calls[i].entryExpiresAt
      /\ (Scheduled(i) /\ Settled(i)) => Dispatched(i)

SquadsCallMade ==
  /\ Len(calls') = Len(calls) + 1
  /\ calls'[Len(calls')].endpoint = SQUADS

SquadsStored(i) ==
  /\ calls[i].endpoint = SQUADS
  /\ calls[i].st = "inflight"
  /\ calls'[i].result = "data"

NonEmptyErrorList(errs) ==
  CASE errs.kind = "array" -> errs.n > 0
    [] errs.kind = "object" -> errs.n > 0
    [] errs.kind \in {"undefined", "null"} -> FALSE
    [] errs.kind = "string" -> errs.n > 0
    [] errs.kind = "number" -> errs.n # 0
    [] errs.kind = "boolean" -> errs.n = 1

\* The payload d was produced by a fetch that succeeded.
FromSuccessfulFetch(cs, d) ==
  /\ d.fetch \in 1..Len(cs)
  /\ cs[d.fetch].result = "data"
  /\ cs[d.fetch].payload = d
  /\ ~NonEmptyErrorList(d.errors)

\* C11: a squads fetch that fails (connection error, non-2xx status, HTTP
\* 200 with provider errors, or a rejection inherited from the queue) leaves
\* the cache as it was, and every cache entry and every cache hit holds the
\* body of a fetch that succeeded, never a body with provider errors.
C11_FailureNeverCached ==
  [][/\ \A i \in 1..Len(calls) :
          (/\ calls[i].endpoint = SQUADS
           /\ calls[i].result = "pending"
           /\ calls'[i].result = "error")
          => apiFootballCache' = apiFootballCache
     /\ \A k \in DOMAIN apiFootballCache' :
          FromSuccessfulFetch(calls', apiFootballCache'[k].data)
     /\ \A i \in 1..Len(calls') :
          calls'[i].st = "hit" => FromSuccessfulFetch(calls', calls'[i].payload)
    ]_vars

\* A squads fetch is answered with provider errors and the next call for
\* the same team is a miss that goes to the provider.
C11_Witness ==
  \E i, j \in 1..Len(calls) :
    /\ i < j
    /\ calls[i].endpoint = SQUADS /\ calls[j].endpoint = SQUADS
    /\ Dispatched(i) /\ calls[i].result = "error"
    /\ calls[i].err.upstreamStatus = 200
    /\ Dispatched(j)
    /\ apiFootballCache = <<>>

\* C12: a body with a non-empty error list is never handed to the caller as
\* data, and a call fails with upstreamStatus 200 exactly as the rate-limited
\* error (status 429, retryAfterSeconds 60) with the non-empty error list
\* attached, on the squads path and on the path of the other endpoints; a
\* body whose error list is empty or absent is data.
C12_EmbeddedErrorsRateLimited ==
  \A i \in 1..Len(calls) :
    /\ calls[i].result = "data" => ~NonEmptyErrorList(calls[i].payload.errors)
    /\ (calls[i].result = "error" /\ calls[i].err.upstreamStatus = 200)
         => /\ NonEmptyErrorList(calls[i].err.upstreamErrors)
            /\ calls[i].err =
                 [isApiFootballError |-> TRUE, status |-> 429, upstreamStatus |-> 200,
                  retryAfterSeconds |-> 60,
                  upstreamErrors |-> calls[i].err.upstreamErrors,
                  endpoint |-> calls[i].endpoint, params |-> calls[i].params,
                  raw |-> "none"]

\* A squads call fails on a truthy scalar "errors" member while an events
\* call is queued behind it.
C12_Witness ==
  /\ Len(calls) >= 2
  /\ calls[1].endpoint = SQUADS
  /\ calls[1].result = "error"
  /\ calls[1].err.upstreamErrors = JsString(1)
  /\ calls[2].endpoint = EVENTS

\* C13: the request of a call answered with a non-2xx status s fails with
\* upstreamStatus = s, as the rate-limited error with retryAfterSeconds 60
\* for s = 429 and as the 502 error without retryAfterSeconds otherwise, and
\* a request that was dispatched or has settled is never issued again.
C13_HttpStatusMapping ==
  [][\A i \in 1..Len(calls') :
       /\ (/\ calls'[i].dispatchedAt >= 0
           /\ calls'[i].st = "rejected"
           /\ calls'[i].reason \in HttpReasons)
          => LET s == HttpStatusOf(calls'[i].reason)
                 e == calls'[i].err
             IN /\ e.isApiFootballError
                /\ e.upstreamStatus = s
                /\ s = 429 => (e.status = 429 /\ e.retryAfterSeconds = 60)
                /\ s # 429 => (e.status = 502 /\ e.retryAfterSeconds = Undefined)
       /\ (i <= Len(calls) /\ Dispatched(i))
          => /\ calls'[i].dispatchedAt = calls[i].dispatchedAt
             /\ calls'[i].st \notin {"queued", "sleeping"}
       /\ (i <= Len(calls) /\ Settled(i)) => calls'[i].st = calls[i].st
    ]_vars

\* An events call answered with HTTP 503.
C13_Witness ==
  \E i \in 1..Len(calls) :
    /\ calls[i].endpoint = EVENTS
    /\ Dispatched(i)
    /\ calls[i].reason = "http503"
    /\ calls[i].err.status = 502

\* C14: every failed call gives its caller an ApiFootballError that carries
\* the endpoint and the params of that call.
C14_UniformErrorType ==
  \A i \in 1..Len(calls) :
    calls[i].result = "error"
      => /\ calls[i].err.isApiFootballError
         /\ calls[i].err.endpoint = calls[i].endpoint
         /\ calls[i].err.params = calls[i].params

\* C15: every invocation eventually completes with a result or an error,
\* and every request scheduled on the queue is eventually dispatched, also
\* when the provider leaves a request unanswered.
C15_EveryCallCompletes ==
  \A i \in 1..MaxCalls :
    /\ (Len(calls) >= i) ~> (Len(calls) >= i /\ Settled(i))
    /\ (Len(calls) >= i /\ Scheduled(i)) ~> (Len(calls) >= i /\ Dispatched(i))

\* Two params objects hold the same name/value pairs.
SamePairs(p, q) ==
  /\ Len(p) = Len(q)
  /\ {p[i] : i \in DOMAIN p} = {q[i] : i \in DOMAIN q}

\* C20: stableStringify gives the same string for params objects that hold
\* the same name/value pairs in any insertion order, and a squads call is
\* answered from the entry that a call with the same pairs, in whatever
\* order, has stored.
C20_KeyIgnoresInsertionOrder ==
  [][SquadsCallMade =>
       LET c == calls'[Len(calls')]
       IN /\ \A p \in ParamMaps :
               SamePairs(p, c.params) => stableStringify(p) = stableStringify(c.params)
          /\ \A i \in 1..Len(calls) :
               (/\ calls[i].endpoint = SQUADS
                /\ SamePairs(calls[i].params, c.params)
                /\ Scheduled(i) /\ calls[i].result = "data" /\ calls[i].payload.truthy
                /\ CacheKey(SQUADS, calls[i].params) \in DOMAIN apiFootballCache
                /\ now < apiFootballCache[CacheKey(SQUADS, calls[i].params)].expiresAt)
               => /\ c.st = "hit"
                  /\ c.payload =
                       apiFootballCache[CacheKey(SQUADS, calls[i].params)].data
    ]_vars

\* A squad fetched for one insertion order answers the call made with
\* another.
C20_Witness ==
  /\ Len(calls) >= 2
  /\ Len(calls[1].params) = Cardinality(ParamPairs)
  /\ calls[1].params # calls[2].params
  /\ SamePairs(calls[1].params, calls[2].params)
  /\ calls[2].st = "hit"
  /\ calls[2].payload.fetch = 1

\* C23: upstream requests go out in the order in which the calls were
\* submitted: whenever the request of a call has been dispatched, the request
\* of every call scheduled before it, by whichever caller, was dispatched at
\* an earlier time.
C23_DispatchInSubmissionOrder ==
  \A i, j \in 1..Len(calls) :
    (i < j /\ Scheduled(i) /\ Scheduled(j) /\ Dispatched(j))
      => /\ Dispatched(i)
         /\ calls[i].dispatchedAt < calls[j].dispatchedAt

\* A squads call and an events call submitted at the same moment, and a
\* third call behind them: the first two have gone out in that order.
C23_Witness ==
  /\ Len(calls) = 3
  /\ calls[1].endpoint = SQUADS /\ calls[2].endpoint = EVENTS
  /\ calls[1].issuedAt = calls[2].issuedAt
  /\ Dispatched(1) /\ Dispatched(2)
  /\ calls[1].dispatchedAt < calls[2].dispatchedAt
  /\ calls[3].st = "queued"

\* The request of invocation i goes out in this step.
Dispatches(i) ==
  /\ calls[i].st \in {"queued", "sleeping"}
  /\ calls'[i].st = "inflight"

\* C24: the step that issues a request has first set the next-allowed time
\* to the dispatch time plus the minimum interval; the reservation of every
\* dispatched request stays in place whatever the outcome of the request;
\* and no other step (a cache hit, a failing or succeeding response, a
\* propagated rejection, the clock) changes the next-allowed time.
C24_ReservationOnDispatchOnly ==
  [][/\ \A i \in 1..Len(calls) :
          Dispatches(i) =>
            /\ calls'[i].dispatchedAt = now
            /\ apiFootballNextAllowedAt' = now + API_FOOTBALL_MIN_INTERVAL_MS
     /\ \A i \in 1..Len(calls') :
          calls'[i].dispatchedAt >= 0 =>
            apiFootballNextAllowedAt' >=
              calls'[i].dispatchedAt + API_FOOTBALL_MIN_INTERVAL_MS
     /\ (apiFootballNextAllowedAt' # apiFootballNextAllowedAt)
          => \E i \in 1..Len(calls) : Dispatches(i)
    ]_vars

\* A squads fetch, a cache hit and an events request that failed: the
\* reservation made for the failed request is the one in place.
C24_Witness ==
  /\ Len(calls) = 3
  /\ calls[2].st = "hit"
  /\ Dispatched(3) /\ calls[3].result = "error"
  /\ calls[3].dispatchedAt > calls[1].dispatchedAt
  /\ apiFootballNextAllowedAt = calls[3].dispatchedAt + API_FOOTBALL_MIN_INTERVAL_MS

\* A squads call is answered from the cache in this step.
SquadsHitMade ==
  /\ SquadsCallMade
  /\ calls'[Len(calls')].st = "hit"

\* C25: a squads call answered from the cache found an entry with
\* now < expiresAt and returns the payload of that entry, which is the
\* payload the populating fetch stored; the step changes no other call,
\* dispatches nothing, and leaves the next-allowed time and the whole cache,
\* the entry's expiresAt included, as they were; a call answered from the
\* cache is never scheduled or dispatched afterwards.
C25_HitLeavesGatewayAlone ==
  [][/\ SquadsHitMade =>
          LET c == calls'[Len(calls')]
              key == CacheKey(c.endpoint, c.params)
          IN /\ key \in DOMAIN apiFootballCache
             /\ now < apiFootballCache[key].expiresAt
             /\ c.result = "data"
             /\ c.payload = apiFootballCache[key].data
             /\ c.payload.fetch \in 1..Len(calls)
             /\ calls[c.payload.fetch].payload = c.payload
             /\ Dispatched(c.payload.fetch)
             /\ CacheKey(SQUADS, calls[c.payload.fetch].params) = key
             /\ c.dispatchedAt < 0
             /\ \A i \in 1..Len(calls) : calls'[i] = calls[i]
             /\ apiFootballNextAllowedAt' = apiFootballNextAllowedAt
             /\ apiFootballCache' = apiFootballCache
     /\ \A i \in 1..Len(calls) : calls[i].st = "hit" => calls'[i] = calls[i]
    ]_vars

\* The squad is answered from the cache, one clock unit before the entry
\* expires, while an events request is in flight.
C25_Witness ==
  /\ Len(calls) = 3
  /\ calls[2].endpoint = EVENTS /\ calls[2].st = "inflight"
  /\ calls[3].st = "hit" /\ calls[3].payload.fetch = 1
  /\ calls[3].issuedAt > calls[1].dispatchedAt
  /\ calls[3].issuedAt = calls[3].entryExpiresAt - 1

\* C26: only /players/squads uses the cache: a call to another endpoint is
\* never answered from the cache, every such call that has completed had its
\* own request dispatched, also right after an identical call succeeded, and
\* the cache holds entries of /players/squads only.
C26_OnlySquadsCached ==
  /\ \A i \in 1..Len(calls) :
       calls[i].endpoint # SQUADS =>
         /\ calls[i].st # "hit"
         /\ Settled(i) => Dispatched(i)
  /\ \A k \in DOMAIN apiFootballCache : k[1] = SQUADS

RefreshWrites == refresh.pc = "write" /\ refresh'.pc = "idle"

\* C22: the write of a refresh only adds players: every entry stored before
\* it is stored after it with the same scores, also when the scores were
\* written while the refresh was waiting for its squads; the teams stored
\* before are the teams stored after when there were any; and the entries
\* added are players of the squads fetched, with empty scores.
C22_RefreshOnlyAdds ==
  [][RefreshWrites =>
       /\ \A e \in DOMAIN poolScores :
            e \in DOMAIN poolScores' /\ poolScores'[e] = poolScores[e]
       /\ (DOMAIN poolScores) \cap PoolTeams # {}
            => (DOMAIN poolScores') \cap PoolTeams = (DOMAIN poolScores) \cap PoolTeams
       /\ \A e \in (DOMAIN poolScores') \ (DOMAIN poolScores) :
            /\ poolScores'[e] = ZeroScores
            /\ e \in refresh.fresh \cup PoolTeams
    ]_vars

\* No player id is held by two entries of the draft picks.
NoPlayerTwice ==
  \A i, j \in 1..Len(league.draftPicks) :
    i # j => String(league.draftPicks[i].playerId) # String(league.draftPicks[j].playerId)

\* The handler of request i checks the request against the league it read.
Checked(i) ==
  /\ i <= Len(requests)
  /\ requests[i].pc = "getLeague"
  /\ Len(requests') = Len(requests)
  /\ requests'[i].pc # "getLeague"

\* Request i is a pick or a swap that names a player the picks hold.
NamesDrafted(i) ==
  /\ requests[i].op \in {"pick", "swap-pick"}
  /\ requests[i].playerId # Missing
  /\ Drafted(league.draftPicks, requests[i].playerId)

\* The status of the check that fails first for request i naming a drafted
\* player: 403 for a pick of an open, incomplete draft sent without the admin
\* token by another manager than the one on the clock, and for a swap without
\* the admin token; 404 for a swap whose outPlayerId is no pick of the named
\* manager; 400 otherwise.
FirstFailingCheck(i) ==
  LET req == requests[i]
      snakePicks == generateSnakePicks(league.draftOrder, DRAFT_ROUNDS)
      n == Len(league.draftPicks)
  IN IF req.op = "pick"
       THEN IF /\ league.draftOpen
               /\ n < Len(snakePicks)
               /\ ~req.admin
               /\ snakePicks[n + 1].managerId # req.managerId
              THEN 403 ELSE 400
       ELSE IF ~req.admin THEN 403
            ELSE IF /\ req.outPlayerId # Missing
                    /\ req.managerId # ""
                    /\ ~\E k \in 1..n :
                          /\ String(league.draftPicks[k].playerId) = String(req.outPlayerId)
                          /\ league.draftPicks[k].managerId = req.managerId
              THEN 404 ELSE 400

\* C28 as stated: no player id appears in more than one entry of the draft
\* picks, and every pick or swap naming an already drafted player is answered
\* with status 400 and leaves the picks unchanged.
C28_DuplicateRejectedWith400 ==
  [][/\ NoPlayerTwice'
     /\ \A i \in 1..MaxRequests :
          Checked(i) /\ NamesDrafted(i)
            => /\ requests'[i].pc = "answered"
               /\ requests'[i].out.status = 400
               /\ league' = league
    ]_vars

\* C28: no player id appears in more than one entry of the draft picks, and
\* every pick or swap naming an already drafted player is rejected and leaves
\* the picks unchanged; its status is 400 unless an earlier check of the
\* handler fails, which gives 403 (not the requester's turn, no admin token)
\* or 404 (the pick to swap out is not found).
C28_DuplicateRejected ==
  [][/\ NoPlayerTwice'
     /\ \A i \in 1..MaxRequests :
          Checked(i) /\ NamesDrafted(i)
            => /\ requests'[i].pc = "answered"
               /\ requests'[i].out.status = FirstFailingCheck(i)
               /\ league' = league
    ]_vars

\* A pick naming player 7 as a number was answered 400 while the picks hold
\* "7" and another player.
C28_Witness ==
  /\ Len(requests) = 1
  /\ requests[1].op = "pick" /\ requests[1].playerId = Num("7")
  /\ requests[1].pc = "answered"
  /\ requests[1].out.status = 400
  /\ requests[1].out.error = "Player already drafted"
  /\ Len(league.draftPicks) = 2
  /\ \E k \in 1..2 : league.draftPicks[k].playerId = Str("7")

\* C29: the draft flags agree with the picks: with managers in the draft
\* order, draft_complete is true exactly when the number of picks equals the
\* rounds times the number of managers in the order; the number of picks
\* never exceeds that total; draft_open is false whenever draft_complete is
\* true.
C29_FlagsAgreeWithPicks ==
  LET total == DRAFT_ROUNDS * Len(league.draftOrder)
  IN /\ league.draftOrder # <<>>
          => (league.draftComplete <=> Len(league.draftPicks) = total)
     /\ Len(league.draftPicks) <= total
     /\ league.draftComplete => ~league.draftOpen

\* C30: with pick requests handled concurrently, every pick request answered
\* with success has its pick in the stored picks, entry k of the stored picks
\* carries overall number k, and its manager is the one the snake order puts
\* at position k.
C30_ConcurrentPicksConsistent ==
  LET picks == league.draftPicks
      snakePicks == generateSnakePicks(league.draftOrder, DRAFT_ROUNDS)
  IN /\ \A i \in 1..Len(requests) :
          requests[i].pc = "answered" /\ requests[i].out.status = 200
            => \E k \in 1..Len(picks) : picks[k] = requests[i].out.pick
     /\ \A k \in 1..Len(picks) :
          /\ picks[k].overall = k
          /\ k <= Len(snakePicks)
          /\ picks[k].managerId = snakePicks[k].managerId

\* How often the id is held by the list, ids compared as strings.
TimesHeld(list, id) == Cardinality({k \in 1..Len(list) : String(list[k]) = id})

IsPermutation(a, b) ==
  /\ Len(a) = Len(b)
  /\ \A id \in StringSet(a) \cup StringSet(b) : TimesHeld(a, id) = TimesHeld(b, id)

NoIdTwice(queue) == \A id \in StringSet(queue) : TimesHeld(queue, id) = 1

\* The handler of request i decides on the queue it read.
Decides(i) ==
  /\ i <= Len(requests)
  /\ requests[i].pc = "getQueueRow"
  /\ Len(requests') = Len(requests)
  /\ requests'[i].pc # "getQueueRow"

\* C31: no stored draft queue holds a player id more than once; adding an id
\* already queued leaves the queue unchanged; a reorder is accepted only when
\* the incoming list is a permutation of the stored queue, and is otherwise
\* answered with status 400 and leaves the queue unchanged.
C31_QueueHoldsNoIdTwice ==
  [][/\ \A m \in DOMAIN draftQueues' : NoIdTwice(draftQueues'[m])
     /\ \A i \in 1..MaxRequests :
          Decides(i) =>
            LET req == requests[i]
                stored == getQueueRow(req.managerId)
            IN /\ (req.op = "add" /\ String(req.playerId) \in StringSet(stored))
                    => /\ requests'[i].pc = "answered"
                       /\ requests'[i].out.queue = stored
               /\ (req.op = "reorder" /\ ~IsPermutation(req.incoming, stored))
                    => /\ requests'[i].pc = "answered"
                       /\ requests'[i].out.status = 400
    ]_vars

\* ========================================================= poller claims
FixtureCall(c, f) ==
  /\ c.endpoint \in {EVENTS, STATISTICS}
  /\ Lookup(c.params, "fixture").text = f

NewCalls == {calls'[i] : i \in (Len(calls) + 1)..Len(calls')}

\* C4: within one tick, a failed fetch for one fixture does not keep another
\* eligible fixture from getting its own upstream calls: the call the tick
\* made for the other fixture was dispatched to the provider.
C4_FetchFailureIsolated ==
  (/\ pollPc \in {"awaitEvents", "awaitStats"}
   /\ calls[pollAwait].result # "pending"
   /\ tickLog \ {pollCur.id} # {})
  => Dispatched(pollAwait)

\* C5: the stat rows of a fixture are exactly the rows computed from its
\* most recent full pull; no row of an earlier pull survives.
C5_RowsEqualLatestPull ==
  \A f \in DOMAIN lastPull :
    /\ RowsOf(matchStats, f) = computeFixturePoints(lastPull[f].events)
    /\ RowsOf(teamMatchStats, f) = computeTeamPoints(lastPull[f])

\* C6: once a fixture is finalized it stays finalized, no events or
\* statistics call is made for it and its stat rows are not written again.
C6_FinalizedIsFinal ==
  [][\A f \in DOMAIN fixtures :
       fixtures[f].finalized =>
         /\ f \in DOMAIN fixtures' /\ fixtures'[f].finalized
         /\ \A c \in NewCalls : ~FixtureCall(c, f)
         /\ RowsOf(matchStats', f) = RowsOf(matchStats, f)
         /\ RowsOf(teamMatchStats', f) = RowsOf(teamMatchStats, f)
    ]_vars

\* A finalized fixture is reported in its second half by a later tick.
C6_Witness ==
  /\ lastEval.fixture = "1"
  /\ lastEval.wasFinalized
  /\ lastEval.status = "2H" /\ lastEval.elapsed = 47
  /\ "1" \in DOMAIN lastPull

\* The table of the poller.
DecisionTable(status, elapsed) ==
  CASE status \in {"NS", "HT"} -> "skip"
    [] status = "1H" /\ elapsed < 1 -> "skip"
    [] status = "1H" /\ elapsed >= 1 -> "process"
    [] status = "2H" /\ elapsed < 47 -> "skip"
    [] status = "2H" /\ elapsed >= 47 -> "process"
    [] status \in {"ET", "P"} -> "process"
    [] status \in {"FT", "AET", "PEN"} -> "final"

\* C7: for a seeded fixture that is not finalized the tick does what the
\* table says for the reported (status, elapsed): a skip makes no call, the
\* other rows fetch the events of the fixture; the upsert that ends the
\* processing finalizes the fixture exactly for FT, AET and PEN, and nothing
\* else sets finalized.
C7_DecisionFollowsTable ==
  [][/\ (lastEval' # NoEval /\ lastEval' # lastEval
           /\ lastEval'.seeded /\ ~lastEval'.wasFinalized)
        => LET e == lastEval'
               row == DecisionTable(e.status, e.elapsed)
           IN /\ row = "skip" => (calls' = calls /\ pollPc' = "loop")
              /\ row # "skip" =>
                   /\ pollPc' = "awaitEvents"
                   /\ pollCur' = [id |-> e.fixture, status |-> e.status]
                   /\ \E c \in NewCalls : c.endpoint = EVENTS /\ FixtureCall(c, e.fixture)
     /\ (pollPc = "awaitStats" /\ Usable(pollAwait) /\ pollPc' = "loop")
        => (fixtures'[pollCur.id].finalized
              <=> DecisionTable(pollCur.status, 90) = "final")
     /\ \A f \in DOMAIN fixtures :
          (~fixtures[f].finalized /\ fixtures'[f].finalized)
            => (pollCur.id = f /\ pollCur.status \in {"FT", "AET", "PEN"})
    ]_vars

\* Fixture 1 was finalized and fixture 2 is picked up in minute 47.
C7_Witness ==
  /\ fixtures["1"].finalized
  /\ lastEval.fixture = "2"
  /\ lastEval.status = "2H" /\ lastEval.elapsed = 47
  /\ pollPc = "awaitEvents"

Outstanding(i) == calls[i].st \in {"queued", "sleeping", "inflight"}

TickStarts ==
  /\ pollPc' = "awaitLive"
  /\ \E c \in NewCalls : c.endpoint = LIVE

\* C16: a tick starts, and with it the evaluation of fixtures, only when no
\* upstream call of an earlier tick is queued, sleeping for its slot or in
\* flight; a timer that fires while the tick is still running starts
\* nothing.
C16_TicksNeverOverlap ==
  [][/\ TickStarts => \A i \in 1..Len(calls) : ~Outstanding(i)
     /\ (pollSkipped' /\ ~pollSkipped)
          => /\ calls' = calls
             /\ pollPc' = pollPc /\ pollTodo' = pollTodo /\ pollCur' = pollCur
    ]_vars

\* The timer fired while the statistics call of the running tick sleeps
\* for its slot behind the live query and the events call.
C16_Witness ==
  /\ pollSkipped
  /\ pollPc = "awaitStats"
  /\ calls[pollAwait].st = "sleeping"
  /\ now < calls[pollAwait].wakeAt

TickEnds == pollTick' = pollTick + 1

RowsUpserted ==
  /\ pollPc = "awaitStats"
  /\ Usable(pollAwait)
  /\ pollPc' = "loop"

Occurrences(seq, x) == Cardinality({i \in DOMAIN seq : seq[i] = x})

StageSum(fx, mstats, tstats, e, st) ==
  LET fs == {f \in DOMAIN fx : CompOf(fx, f) = PoolComp /\ fx[f].stage = st}
  IN SumPoints(IF e \in PoolPlayers THEN mstats ELSE tstats, fs, e)

RowsWritten(f) ==
  \/ f \notin DOMAIN lastPull /\ f \in DOMAIN lastPull'
  \/ f \in DOMAIN lastPull /\ lastPull'[f] # lastPull[f]

\* C17: after an aggregation for the competition every pool entry's score of
\* a stage is the sum of its stat-row totals over all fixtures of that stage
\* in the competition (rows of other stages and of other competitions do not
\* count), the previous value is replaced, and aggregating again over the
\* same rows changes nothing.
C17_PoolScoreIsStageSum ==
  [][(\E f \in DOMAIN fixtures : CompOf(fixtures, f) = PoolComp /\ RowsWritten(f))
       => /\ \A e \in DOMAIN poolScores' : \A st \in Stages :
               poolScores'[e][st] =
                 StageSum(fixtures', matchStats', teamMatchStats', e, st)
          /\ updatePlayerPoolScores(poolScores', fixtures', matchStats',
                                    teamMatchStats', PoolComp) = poolScores'
    ]_vars

\* Player A has rows in both fixtures of the round of 16, in the
\* quarter-final and in the fixture of the other competition.
C17_Witness ==
  /\ \A f \in DOMAIN fixtures : <<f, "A">> \in DOMAIN matchStats
  /\ poolScores["A"]["R16"] = matchStats[<<"1", "A">>].points + matchStats[<<"2", "A">>].points
  /\ poolScores["A"]["R16"] > matchStats[<<"1", "A">>].points
  /\ poolScores["A"]["QF"] = matchStats[<<"4", "A">>].points

HasLine(row, points, reason) ==
  \E i \in DOMAIN row.breakdown :
    row.breakdown[i].points = points /\ row.breakdown[i].reason = reason

Opponent(side) == IF side = HomeTeam THEN AwayTeam ELSE HomeTeam
SideIndex(side) == IF side = HomeTeam THEN 1 ELSE 2

\* C18: a side has the line +2 Clean Sheet exactly when it conceded no goal
\* in regulation plus extra time, whatever the shootout, and the line +1 Win
\* exactly when it won the match or the shootout of a drawn match; after a
\* 0-0 decided on penalties the loser has exactly {+2 Clean Sheet} and the
\* winner exactly {+1 Win, +2 Clean Sheet}.
C18_CleanSheetApartFromResult ==
  \A f \in DOMAIN lastPull :
    LET pull == lastPull[f]
    IN \A side \in {HomeTeam, AwayTeam} :
         LET row == teamMatchStats[<<f, side>>]
             me == SideIndex(side)
             other == SideIndex(Opponent(side))
             won == \/ pull.goals[me] > pull.goals[other]
                    \/ /\ pull.goals[me] = pull.goals[other]
                       /\ pull.penalty[me] > pull.penalty[other]
         IN /\ HasLine(row, 2, "Clean Sheet") <=> pull.goals[other] = 0
            /\ HasLine(row, 1, "Win") <=> won
            /\ \A i \in DOMAIN row.breakdown :
                 /\ row.breakdown[i].reason = "Clean Sheet" => row.breakdown[i].points = 2
                 /\ row.breakdown[i].reason = "Win" => row.breakdown[i].points = 1
            /\ (pull.goals = <<0, 0>> /\ pull.penalty # <<0, 0>> /\ pull.events = <<>>)
                 => row.breakdown =
                      IF won THEN <<Line(1, "Win", 1), Line(2, "Clean Sheet", 1)>>
                      ELSE <<Line(2, "Clean Sheet", 1)>>

\* A 0-0 that the home side lost in the shootout.
C18_Witness ==
  /\ "1" \in DOMAIN lastPull
  /\ lastPull["1"].goals = <<0, 0>>
  /\ lastPull["1"].penalty[1] < lastPull["1"].penalty[2]
  /\ lastPull["1"].events = <<>>
  /\ teamMatchStats[<<"1", HomeTeam>>].points = 2
  /\ teamMatchStats[<<"1", AwayTeam>>].points = 3

\* The rows computed from the pull are among the stored rows of fixture f.
RowsHold(mstats, tstats, f, pull) ==
  /\ \A id \in DOMAIN computeFixturePoints(pull.events) :
       /\ <<f, id>> \in DOMAIN mstats
       /\ mstats[<<f, id>>] = computeFixturePoints(pull.events)[id]
  /\ \A t \in DOMAIN computeTeamPoints(pull) :
       /\ <<f, t>> \in DOMAIN tstats
       /\ tstats[<<f, t>>] = computeTeamPoints(pull)[t]

\* A fixture becomes finalized only in the step that upserts its rows from
\* the pull of this tick, taken at a final status, after the statistics
\* call (and before it the events call) of the fixture returned a body.
FinalizedAfterUpsert ==
  \A f \in DOMAIN fixtures :
    (~fixtures[f].finalized /\ fixtures'[f].finalized)
      => /\ RowsUpserted
         /\ pollCur.id = f /\ pollCur.status \in FinalStatuses
         /\ calls[pollAwait].endpoint = STATISTICS /\ FixtureCall(calls[pollAwait], f)
         /\ f \in DOMAIN lastPull'
         /\ RowsHold(matchStats', teamMatchStats', f, lastPull'[f])

\* A failed fetch leaves every fixture as it was.
FailureLeavesUnfinalized ==
  (/\ pollPc \in {"awaitEvents", "awaitStats"}
   /\ Settled(pollAwait) /\ ~Usable(pollAwait)
   /\ pollPc' = "loop")
  => /\ fixtures' = fixtures
     /\ matchStats' = matchStats /\ teamMatchStats' = teamMatchStats

\* After the fetch of a fixture failed, the fixture is fetched again by a
\* later tick: the live query of every tick started after the failure, and
\* the calls that tick makes for its fixtures, go to the provider.
RetriedOnLaterTick ==
  (/\ pollPc' \in {"awaitLive", "awaitEvents", "awaitStats"}
   /\ calls'[pollAwait'].result # "pending"
   /\ \E j, k \in 1..pollAwait' :
        /\ j < k
        /\ calls'[j].endpoint \in {EVENTS, STATISTICS}
        /\ calls'[j].st = "rejected" /\ calls'[j].dispatchedAt >= 0
        /\ calls'[k].endpoint = LIVE)
  => calls'[pollAwait'].dispatchedAt >= 0

\* C27: a fixture at FT, AET or PEN is marked finalized only after its
\* events and statistics were fetched and its rows upserted in that tick; a
\* failed fetch leaves it unfinalized, and a later tick fetches it again; so
\* every finalized fixture has the rows of a pull taken at a final status.
C27_FinalizedOnlyAfterUpsert ==
  [][/\ FinalizedAfterUpsert
     /\ FailureLeavesUnfinalized
     /\ RetriedOnLaterTick
     /\ \A f \in DOMAIN fixtures' :
          fixtures'[f].finalized =>
            /\ f \in DOMAIN lastPull'
            /\ RowsHold(matchStats', teamMatchStats', f, lastPull'[f])
    ]_vars

\* C8: a live fixture that was never seeded is skipped: no events or
\* statistics call names it, no stat row is written for it and no fixture
\* row is created for it.
C8_UnseededIsSkipped ==
  /\ DOMAIN fixtures = SeededFixtures
  /\ \A i \in 1..Len(calls) :
       calls[i].endpoint \in {EVENTS, STATISTICS}
         => Lookup(calls[i].params, "fixture").text \in SeededFixtures
  /\ \A k \in (DOMAIN matchStats) \cup (DOMAIN teamMatchStats) : k[1] \in SeededFixtures

\* The provider reports the unseeded fixture as finished.
C8_Witness ==
  /\ lastEval.fixture = "3"
  /\ lastEval.status = "FT"
  /\ ~lastEval.seeded
  /\ lastEval.decision = "skip"

====
